---- MODULE Spec2Model ----
(***************************************************************************)
(* FeatureFinderMultiplex (OpenMS): generation of the mass patterns of a   *)
(* peptide multiplet from the labelling description                        *)
(* (TOPPFeatureFinderMultiplex::generateMassPatterns_), the parameter      *)
(* handling and the peak patterns (getParameters_algorithm_,               *)
(* generatePeakPatterns_), the peptide quantitation                        *)
(* (getPeptideIntensities) and the output maps (generateMaps_,             *)
(* writeConsensusMap_, writeFeatureMap_) and the run of main_; further     *)
(* the index navigation of FeaFiModule, the follow-up scan of              *)
(* IsobaricChannelExtractor::PuritySate and the navigator of               *)
(* SplineSpectrum.  Each part has its own specification; the variables of  *)
(* the other parts stay at rest in it.                                     *)
(*                                                                         *)
(* Strings are sequences of one-character strings, so that find and split  *)
(* work on characters as std::string::find and boost::split do.            *)
(* Masses (C++ double) are integers in units of 1e-6 Da: the generator     *)
(* only multiplies masses by small integers, adds and subtracts them and   *)
(* compares them with 0, which fixed point does exactly.                   *)
(***************************************************************************)
EXTENDS Integers, Sequences, FiniteSets, TLC

VARIABLES
  labels_,            \* String labels_ (algorithm:labels)
  missed_cleavages_,  \* unsigned missed_cleavages_
  knock_out_,         \* bool knock_out_
  label_massshift,    \* map<String,double> label_massshift
  pc,                 \* position inside generateMassPatterns_
  labelling,          \* the local flags SILAC, Dimethyl, ICPL, none
  samples_labels,     \* vector<vector<String>> samples_labels
  list,               \* vector<MassPattern> list
  enumerated,         \* value of list when the knock-out expansion starts
  n_read,             \* the local n = list[0].size()
  exception,          \* exception thrown by generateMassPatterns_
  result              \* the returned list (when pc = "done")

VARIABLES
  charge_temp,                \* charge_min_temp, charge_max_temp of parseRange_
  isotopes_per_peptide_temp,  \* isotopes_per_peptide_min_temp, .._max_temp
  charge_min_,                \* unsigned charge_min_
  charge_max_,                \* unsigned charge_max_
  isotopes_per_peptide_min_,  \* unsigned isotopes_per_peptide_min_
  isotopes_per_peptide_max_,  \* unsigned isotopes_per_peptide_max_
  masses,                     \* vector<MassPattern> masses of main_
  patterns                    \* vector<MultiplexPeakPattern> patterns of main_

genVars == <<labels_, missed_cleavages_, knock_out_, label_massshift,
             labelling, samples_labels, list, enumerated, n_read, result>>

peakVars == <<charge_temp, isotopes_per_peptide_temp, charge_min_,
              charge_max_, isotopes_per_peptide_min_,
              isotopes_per_peptide_max_, masses, patterns>>

VARIABLES
  profile_intensities,    \* the argument of getPeptideIntensities
  ratios,                 \* vector<double> ratios
  intensities,            \* vector<double> intensities
  corrected_intensities   \* vector<double> corrected_intensities

intensityVars == <<profile_intensities, ratios, intensities,
                   corrected_intensities>>

VARIABLES
  cluster_results,     \* vector<map<int,GridBasedCluster>> cluster_results
  consensus_map,       \* ConsensusMap consensus_map of main_
  feature_map,         \* FeatureMap<> feature_map of main_
  file_descriptions,   \* consensus_map.getFileDescriptions(): the sizes
  stored_consensus,    \* the listing stored in the consensusXML file
  stored_features      \* the listing stored in the featureXML file

mapVars == <<cluster_results, consensus_map, feature_map, file_descriptions,
             stored_consensus, stored_features>>

VARIABLES
  map_,          \* FeaFiModule::map_: the m/z of the peaks of every scan
  index,         \* the FeatureFinderDefs::IndexPair (scan, peak) navigated
  index_before,  \* value of index when the last navigation call started
  last_call      \* the navigation member function called last

feafiVars == <<map_, index, index_before, last_call>>

FeaFiIdle ==
  /\ map_ = <<>>
  /\ index = <<0, 0>>
  /\ index_before = <<0, 0>>
  /\ last_call = "none"

VARIABLES
  baseExperiment,    \* PuritySate::baseExperiment: MS level and RT per scan
  followUpScan,      \* PuritySate::followUpScan as a position, size() = end()
  hasFollowUpScan,   \* PuritySate::hasFollowUpScan
  followUp_before,   \* value of followUpScan when advanceFollowUp started
  rt                 \* the argument rt of the last advanceFollowUp

purityVars == <<baseExperiment, followUpScan, hasFollowUpScan,
                followUp_before, rt>>

PurityIdle ==
  /\ baseExperiment = <<>>
  /\ followUpScan = 0
  /\ hasFollowUpScan = FALSE
  /\ followUp_before = 0
  /\ rt = 0

VARIABLES
  packages_,      \* SplineSpectrum::packages_: m/z range and step per package
  last_package_,  \* Navigator::last_package_
  mz,             \* the argument mz of the last call of the navigator
  returned        \* the value the last call of the navigator returned

splineVars == <<packages_, last_package_, mz, returned>>

SplineIdle ==
  /\ packages_ = <<>>
  /\ last_package_ = 0
  /\ mz = 0
  /\ returned = 0

navVars == <<feafiVars, purityVars, splineVars>>

NavIdle == FeaFiIdle /\ PurityIdle /\ SplineIdle

VARIABLES
  exp,         \* MSExperiment exp of main_: the MS level of every spectrum
  exit_code,   \* the value main_ returns, or the error the run ended with
  unique_ids,  \* the unique ids set by writeConsensusMap_, writeFeatureMap_
  previous     \* what an earlier run on this input and configuration left

runVars == <<exp, exit_code, unique_ids, previous>>

NoUniqueIds == [consensus |-> <<>>, features |-> <<>>]

RunIdle ==
  /\ exp = <<>>
  /\ exit_code = "none"
  /\ unique_ids = NoUniqueIds
  /\ previous = <<>>

otherVars == <<navVars, runVars>>

OtherIdle == NavIdle /\ RunIdle

laterVars == <<peakVars, intensityVars, mapVars, otherVars>>

vars == <<labels_, missed_cleavages_, knock_out_, label_massshift, pc,
          labelling, samples_labels, list, enumerated, n_read, exception,
          result, laterVars>>

----------------------------------------------------------------------------
(* Bounds of the model *)

MaxSamples == 4
MaxLabels == 3
MaxMissedCleavages == 1

----------------------------------------------------------------------------
(* Character strings *)

sEmpty == <<>>
sArg == <<"A","r","g">>
sLys == <<"L","y","s">>
sDimethyl == <<"D","i","m","e","t","h","y","l">>
sICPL == <<"I","C","P","L">>
sArg1 == sArg \o <<"1">>
sArg6 == sArg \o <<"6">>
sArg10 == sArg \o <<"1","0">>
sLys4 == sLys \o <<"4">>
sLys6 == sLys \o <<"6">>
sLys8 == sLys \o <<"8">>
sDimethyl0 == sDimethyl \o <<"0">>
sDimethyl4 == sDimethyl \o <<"4">>
sDimethyl6 == sDimethyl \o <<"6">>
sDimethyl8 == sDimethyl \o <<"8">>
sICPL0 == sICPL \o <<"0">>
sICPL4 == sICPL \o <<"4">>
sICPL6 == sICPL \o <<"6">>
sICPL10 == sICPL \o <<"1","0">>

\* std::string::find(sub) != std::string::npos
Contains(s, sub) ==
  \E i \in 0..(Len(s) - Len(sub)) : SubSeq(s, i + 1, i + Len(sub)) = sub

\* boost::split(result, s, boost::is_any_of(delims)): one token per
\* delimiter character plus one (token_compress_off), empty tokens kept.
RECURSIVE split(_, _)
split(s, delims) ==
  IF \A i \in 1..Len(s) : s[i] \notin delims
  THEN <<s>>
  ELSE LET k == CHOOSE i \in 1..Len(s) :
                  /\ s[i] \in delims
                  /\ \A j \in 1..(i - 1) : s[j] \notin delims
       IN <<SubSeq(s, 1, k - 1)>> \o split(SubSeq(s, k + 1, Len(s)), delims)

\* boost::is_any_of("[](){}") and boost::is_any_of(",;: ")
SampleDelimiters == {"[", "]", "(", ")", "{", "}"}
LabelDelimiters == {",", ";", ":", " "}

\* String all_labels, the names separated by one blank
RECURSIVE JoinWith(_, _)
JoinWith(tokens, sep) ==
  IF Len(tokens) = 0 THEN <<>>
  ELSE IF Len(tokens) = 1 THEN tokens[1]
  ELSE tokens[1] \o <<sep>> \o JoinWith(Tail(tokens), sep)

LabelNames ==
  <<sArg6, sArg10, sLys4, sLys6, sLys8, sDimethyl0, sDimethyl4, sDimethyl6,
    sDimethyl8, sICPL0, sICPL4, sICPL6, sICPL10>>

all_labels == JoinWith(LabelNames, " ")

\* getSubsectionDefaults_("labels") read by getParameters_labels_
DefaultLabelMassShift ==
  (sArg6 :> 6020129) @@ (sArg10 :> 10008269) @@ (sLys4 :> 4025107) @@
  (sLys6 :> 6020129) @@ (sLys8 :> 8014199) @@ (sDimethyl0 :> 28031300) @@
  (sDimethyl4 :> 32056407) @@ (sDimethyl6 :> 34063117) @@
  (sDimethyl8 :> 36075670) @@ (sICPL0 :> 105021464) @@
  (sICPL4 :> 109046571) @@ (sICPL6 :> 111041593) @@ (sICPL10 :> 115066700)

\* label_massshift[key]: std::map::operator[] yields 0.0 for a key that is
\* not in the map (and inserts it, see InsertedKeys)
MassShift(map, key) == IF key \in DOMAIN map THEN map[key] ELSE 0

----------------------------------------------------------------------------
(* The labelling descriptions the tool is run with.  A description is a    *)
(* sequence of samples, a sample a sequence of label tokens; it is written *)
(* as the string algorithm:labels with one bracket pair per sample and one *)
(* separator between two labels, e.g. [][Lys8,Arg10] or                    *)
(* [Dimethyl0][Dimethyl6].                                                 *)

TokenSeqs(T, k) == UNION {[1..j -> T] : j \in 0..k}

\* the descriptions of exactly s samples with at most k label tokens in all
RECURSIVE Descriptions(_, _, _)
Descriptions(T, s, k) ==
  IF s = 0 THEN {<<>>}
  ELSE UNION {{<<smp>> \o d : d \in Descriptions(T, s - 1, k - Len(smp))} :
                smp \in TokenSeqs(T, k)}

DescriptionsUpTo(T, s, k) == UNION {Descriptions(T, j, k) : j \in 0..s}

RECURSIVE Render(_, _)
Render(d, style) ==
  IF Len(d) = 0 THEN <<>>
  ELSE <<style.open>> \o JoinWith(d[1], style.sep) \o <<style.close>>
         \o Render(Tail(d), style)

SquareStyle == [open |-> "[", close |-> "]", sep |-> ","]

Styles ==
  {SquareStyle,
   [open |-> "(", close |-> ")", sep |-> ";"],
   [open |-> "{", close |-> "}", sep |-> " "]}

\* SILAC experiments: samples of Arg and Lys labels, possibly unlabelled
SILACTokens == {sArg6, sLys6, sLys8}

SILACStrings ==
  {Render(d, SquareStyle) :
     d \in DescriptionsUpTo(SILACTokens, MaxSamples - 1, MaxLabels)}

\* Dimethyl and ICPL experiments: one label per sample
ChemicalTokens == {sDimethyl0, sDimethyl4, sICPL0, sICPL4, sICPL10}

ChemicalStrings ==
  {Render(d, SquareStyle) :
     d \in UNION {[1..s -> {<<t>> : t \in ChemicalTokens}] :
                    s \in 0..MaxSamples}}

\* everything else a user may type: every bracket and separator style,
\* labels of several families, names that are no labels, empty tokens
OtherTokens == {sLys8, sDimethyl4, sLys, sArg1, sEmpty}

OtherStrings ==
  {Render(d, st) :
     d \in DescriptionsUpTo(OtherTokens, MaxSamples - 2, MaxLabels - 1),
     st \in Styles}

LabelStrings == SILACStrings \cup ChemicalStrings \cup OtherStrings

----------------------------------------------------------------------------
(* generateMassPatterns_, lines 365-378: SILAC, Dimethyl, ICPL or none *)

labelling_SILAC(lab) == Contains(lab, sArg) \/ Contains(lab, sLys)
labelling_Dimethyl(lab) == Contains(lab, sDimethyl)
labelling_ICPL(lab) == Contains(lab, sICPL)
labelling_none(lab) ==
  lab = <<>> \/ lab = <<"[", "]">> \/ lab = <<"(", ")">> \/ lab = <<"{", "}">>

\* the exclusion of the other two families dropped from line 370
SILAC_NotExclusive(lab) == labelling_SILAC(lab) /\ ~labelling_none(lab)

SILAC(lab) ==
  /\ labelling_SILAC(lab) /\ ~labelling_Dimethyl(lab)
  /\ ~labelling_ICPL(lab) /\ ~labelling_none(lab)

Dimethyl(lab) ==
  /\ ~labelling_SILAC(lab) /\ labelling_Dimethyl(lab)
  /\ ~labelling_ICPL(lab) /\ ~labelling_none(lab)

ICPL(lab) ==
  /\ ~labelling_SILAC(lab) /\ ~labelling_Dimethyl(lab)
  /\ labelling_ICPL(lab) /\ ~labelling_none(lab)

none(lab) ==
  /\ ~labelling_SILAC(lab) /\ ~labelling_Dimethyl(lab)
  /\ ~labelling_ICPL(lab) /\ labelling_none(lab)

NoLabelling == [SILAC |-> FALSE, Dimethyl |-> FALSE, ICPL |-> FALSE, none |-> FALSE]

ClassifyLabelling ==
  /\ pc = "start"
  /\ labelling' = [SILAC |-> SILAC(labels_), Dimethyl |-> Dimethyl(labels_),
                   ICPL |-> ICPL(labels_), none |-> none(labels_)]
  /\ IF ~(labelling'.SILAC \/ labelling'.Dimethyl \/ labelling'.ICPL
            \/ labelling'.none)
     THEN pc' = "thrown" /\ exception' = "IllegalArgument"
     ELSE pc' = "classified" /\ exception' = exception
  /\ UNCHANGED <<labels_, missed_cleavages_, knock_out_, label_massshift,
                 samples_labels, list, enumerated, n_read, result>>
  /\ UNCHANGED laterVars

(* lines 380-392: split labels string *)

RECURSIVE NonEmptyOnly(_)
NonEmptyOnly(tokens) ==
  IF Len(tokens) = 0 THEN <<>>
  ELSE (IF tokens[1] # <<>> THEN <<tokens[1]>> ELSE <<>>)
         \o NonEmptyOnly(Tail(tokens))

SplitSamples(lab) ==
  LET temp_samples == NonEmptyOnly(split(lab, SampleDelimiters))
  IN [i \in 1..Len(temp_samples) |-> split(temp_samples[i], LabelDelimiters)]

SplitLabels ==
  /\ pc = "classified"
  /\ samples_labels' = SplitSamples(labels_)
  /\ pc' = "split"
  /\ UNCHANGED <<labels_, missed_cleavages_, knock_out_, label_massshift,
                 labelling, list, enumerated, n_read, exception, result>>
  /\ UNCHANGED laterVars

(* lines 406-419: check if the labels are included in section "labels" *)

LabelKnown(token) == Contains(all_labels, token)

CheckLabels ==
  /\ pc = "split"
  /\ IF \E i \in 1..Len(samples_labels) :
          \E j \in 1..Len(samples_labels[i]) : ~LabelKnown(samples_labels[i][j])
     THEN pc' = "thrown" /\ exception' = "InvalidParameter"
     ELSE pc' = "checked" /\ exception' = exception
  /\ UNCHANGED <<labels_, missed_cleavages_, knock_out_, label_massshift,
                 labelling, samples_labels, list, enumerated, n_read, result>>
  /\ UNCHANGED laterVars

----------------------------------------------------------------------------
(* lines 421-501: generate mass shift list *)

There(token, name) == IF Contains(token, name) THEN 1 ELSE 0

\* line 457: the contribution of label j to the mass shift of its sample
LabelShift(token, ArgPerPeptide, LysPerPeptide) ==
  ArgPerPeptide * (There(token, sArg6) * MassShift(label_massshift, sArg6)
                   + There(token, sArg10) * MassShift(label_massshift, sArg10))
  + LysPerPeptide * (There(token, sLys4) * MassShift(label_massshift, sLys4)
                     + There(token, sLys6) * MassShift(label_massshift, sLys6)
                     + There(token, sLys8) * MassShift(label_massshift, sLys8))

\* lines 438, 443-462: mass_shift of one sample, summed label by label
RECURSIVE mass_shift(_, _, _)
mass_shift(sample, ArgPerPeptide, LysPerPeptide) ==
  IF Len(sample) = 0 THEN 0
  ELSE LabelShift(sample[1], ArgPerPeptide, LysPerPeptide)
         + mass_shift(Tail(sample), ArgPerPeptide, LysPerPeptide)

\* lines 441, 460
goAhead_Arg(sample, ArgPerPeptide) ==
  \E j \in 1..Len(sample) :
    ~(ArgPerPeptide # 0
        /\ There(sample[j], sArg6) + There(sample[j], sArg10) = 0)

\* lines 440, 461
goAhead_Lys(sample, LysPerPeptide) ==
  \E j \in 1..Len(sample) :
    ~(LysPerPeptide # 0
        /\ There(sample[j], sLys4) + There(sample[j], sLys6)
             + There(sample[j], sLys8) = 0)

\* lines 464-467: the entry a sample appends to temp, if any
SampleEntry(sample, ArgPerPeptide, LysPerPeptide) ==
  LET shift == mass_shift(sample, ArgPerPeptide, LysPerPeptide)
  IN IF /\ goAhead_Arg(sample, ArgPerPeptide)
        /\ goAhead_Lys(sample, LysPerPeptide)
        /\ shift # 0
     THEN <<shift>>
     ELSE <<>>

\* lines 434-468: the pattern temp of one pair (ArgPerPeptide, LysPerPeptide)
RECURSIVE SILACEntries(_, _, _)
SILACEntries(samples, ArgPerPeptide, LysPerPeptide) ==
  IF Len(samples) = 0 THEN <<>>
  ELSE SampleEntry(samples[1], ArgPerPeptide, LysPerPeptide)
         \o SILACEntries(Tail(samples), ArgPerPeptide, LysPerPeptide)

SILACTemp(samples, ArgPerPeptide, LysPerPeptide) ==
  <<0>> \o SILACEntries(samples, ArgPerPeptide, LysPerPeptide)

\* line 432 with < in place of <=
WithinMissedCleavages_Strict(ArgPerPeptide, LysPerPeptide, mc) ==
  ArgPerPeptide + LysPerPeptide < mc + 1

\* line 432
WithinMissedCleavages(ArgPerPeptide, LysPerPeptide, mc) ==
  ArgPerPeptide + LysPerPeptide <= mc + 1

\* lines 428-476: the two loops over ArgPerPeptide and LysPerPeptide
RECURSIVE SILACList(_, _, _, _)
SILACList(samples, mc, ArgPerPeptide, LysPerPeptide) ==
  IF ArgPerPeptide > mc + 1 THEN <<>>
  ELSE IF LysPerPeptide > mc + 1
       THEN SILACList(samples, mc, ArgPerPeptide + 1, 0)
       ELSE LET temp == SILACTemp(samples, ArgPerPeptide, LysPerPeptide)
            IN (IF /\ WithinMissedCleavages(ArgPerPeptide, LysPerPeptide, mc)
                   /\ Len(temp) > 1
                THEN <<temp>>
                ELSE <<>>)
                 \o SILACList(samples, mc, ArgPerPeptide, LysPerPeptide + 1)

\* line 489 without the mass of the first sample
ChemicalEntry_NoReference(map, samples, i, mc) ==
  (mc + 1) * MassShift(map, samples[i][1])

\* line 489: one entry of a Dimethyl or ICPL pattern
ChemicalEntry(map, samples, i, mc) ==
  (mc + 1) * (MassShift(map, samples[i][1]) - MassShift(map, samples[1][1]))

\* lines 486-491
ChemicalTemp(map, samples, mc) ==
  [i \in 1..Len(samples) |-> ChemicalEntry(map, samples, i, mc)]

\* lines 484-492 with mc < missed_cleavages_ as the loop condition
ChemicalList_OneShort(map, samples, missed) ==
  [k \in 1..missed |-> ChemicalTemp(map, samples, k - 1)]

\* lines 484-492
ChemicalList(map, samples, missed) ==
  [k \in 1..(missed + 1) |-> ChemicalTemp(map, samples, k - 1)]

\* the keys std::map::operator[] inserts at line 489, with value 0.0
InsertedKeys(map, samples) ==
  [key \in DOMAIN map \cup {samples[i][1] : i \in 1..Len(samples)} |->
     MassShift(map, key)]

GenerateMassShiftList ==
  /\ pc = "checked"
  /\ IF labelling.SILAC
     THEN /\ list' = SILACList(samples_labels, missed_cleavages_, 0, 0)
          /\ label_massshift' = label_massshift
     ELSE IF labelling.Dimethyl \/ labelling.ICPL
     THEN /\ list' = ChemicalList(label_massshift, samples_labels,
                                  missed_cleavages_)
          /\ label_massshift' = InsertedKeys(label_massshift, samples_labels)
     ELSE /\ list' = << <<0>> >>
          /\ label_massshift' = label_massshift
  /\ enumerated' = list'
  /\ pc' = "generated"
  /\ UNCHANGED <<labels_, missed_cleavages_, knock_out_, labelling,
                 samples_labels, n_read, exception, result>>
  /\ UNCHANGED laterVars

----------------------------------------------------------------------------
(* lines 503-580: the mass shifts that occur when peptides are absent *)

\* list[i][k]; reading past the end of the vector is undefined behaviour
\* and yields whatever lies behind it: the value g
Entry(pattern, k, g) == IF k + 1 <= Len(pattern) THEN pattern[k + 1] ELSE g

\* lines 511-549
KnockOut4(p, g) ==
  << <<0, Entry(p, 2, g) - Entry(p, 1, g), Entry(p, 3, g) - Entry(p, 1, g)>>,
     <<0, Entry(p, 2, g) - Entry(p, 0, g), Entry(p, 3, g) - Entry(p, 0, g)>>,
     <<0, Entry(p, 1, g) - Entry(p, 0, g), Entry(p, 2, g) - Entry(p, 0, g)>>,
     <<0, Entry(p, 1, g)>>,
     <<0, Entry(p, 2, g)>>,
     <<0, Entry(p, 3, g)>>,
     <<0, Entry(p, 2, g) - Entry(p, 1, g)>>,
     <<0, Entry(p, 3, g) - Entry(p, 1, g)>>,
     <<0, Entry(p, 3, g) - Entry(p, 2, g)>> >>

\* lines 560-570
KnockOut3(p, g) ==
  << <<0, Entry(p, 1, g)>>,
     <<0, Entry(p, 2, g) - Entry(p, 1, g)>>,
     <<0, Entry(p, 2, g)>> >>

\* lines 509-550 and 558-571: the loop over the first m patterns
RECURSIVE KnockOutLoop(_, _, _)
KnockOutLoop(ps, n, g) ==
  IF Len(ps) = 0 THEN <<>>
  ELSE (IF n = 4 THEN KnockOut4(ps[1], g) ELSE KnockOut3(ps[1], g))
         \o KnockOutLoop(Tail(ps), n, g)

\* lines 506-580
Expanded(ps, n, ko, g) ==
  IF ko /\ n \in {3, 4}
  THEN ps \o KnockOutLoop(ps, n, g) \o << <<0>> >>
  ELSE IF ko /\ n = 2 THEN ps \o << <<0>> >>
  ELSE ps

\* does the expansion read past the end of a pattern?
ReadsPastEnd(ps, n, ko) ==
  ko /\ n \in {3, 4} /\ \E i \in 1..Len(ps) : Len(ps[i]) < n

\* what an out-of-bounds read of list[0].size() or of list[i][k] can yield
GarbageSizes == {0, 1, 2, 3, 4, 5}
GarbageMasses == {-4025107, 0, 8014199}

\* line 505 on a non-empty list, then lines 506-580 inside the patterns
KnockOut ==
  /\ pc = "generated"
  /\ Len(list) > 0
  /\ ~ReadsPastEnd(list, Len(list[1]), knock_out_)
  /\ n_read' = Len(list[1])
  /\ list' = Expanded(list, Len(list[1]), knock_out_, 0)
  /\ pc' = "expanded"
  /\ UNCHANGED <<labels_, missed_cleavages_, knock_out_, label_massshift,
                 labelling, samples_labels, enumerated, exception, result>>
  /\ UNCHANGED laterVars

\* line 505 on an empty list: list[0] is no element of the vector
KnockOutEmptyList ==
  /\ pc = "generated"
  /\ Len(list) = 0
  /\ \/ /\ \E n \in GarbageSizes :
             /\ n_read' = n
             /\ list' = Expanded(list, n, knock_out_, 0)
        /\ pc' = "expanded"
     \/ /\ pc' = "crashed"
        /\ UNCHANGED <<list, n_read>>
  /\ UNCHANGED <<labels_, missed_cleavages_, knock_out_, label_massshift,
                 labelling, samples_labels, enumerated, exception, result>>
  /\ UNCHANGED laterVars

\* lines 512-548 and 565-569 on a pattern shorter than the first one
KnockOutPastEnd ==
  /\ pc = "generated"
  /\ Len(list) > 0
  /\ ReadsPastEnd(list, Len(list[1]), knock_out_)
  /\ \/ /\ \E g \in GarbageMasses :
             list' = Expanded(list, Len(list[1]), knock_out_, g)
        /\ n_read' = Len(list[1])
        /\ pc' = "expanded"
     \/ /\ pc' = "crashed"
        /\ UNCHANGED <<list, n_read>>
  /\ UNCHANGED <<labels_, missed_cleavages_, knock_out_, label_massshift,
                 labelling, samples_labels, enumerated, exception, result>>
  /\ UNCHANGED laterVars

\* line 596
Return ==
  /\ pc = "expanded"
  /\ result' = list
  /\ pc' = "done"
  /\ UNCHANGED <<labels_, missed_cleavages_, knock_out_, label_massshift,
                 labelling, samples_labels, list, enumerated, n_read,
                 exception>>
  /\ UNCHANGED laterVars

----------------------------------------------------------------------------
(* One run of generateMassPatterns_ on every configuration *)

PeakIdle ==
  /\ charge_temp = <<0, 0>>
  /\ isotopes_per_peptide_temp = <<0, 0>>
  /\ charge_min_ = 0
  /\ charge_max_ = 0
  /\ isotopes_per_peptide_min_ = 0
  /\ isotopes_per_peptide_max_ = 0
  /\ masses = <<>>
  /\ patterns = <<>>

IntensityIdle ==
  /\ profile_intensities = <<>>
  /\ ratios = <<>>
  /\ intensities = <<>>
  /\ corrected_intensities = <<>>

MapIdle ==
  /\ cluster_results = <<>>
  /\ consensus_map = <<>>
  /\ feature_map = <<>>
  /\ file_descriptions = <<>>
  /\ stored_consensus = <<>>
  /\ stored_features = <<>>

\* lines 269-270, 349: labels:Lys8 is any mass that is not negative
Lys8MassZero == [DefaultLabelMassShift EXCEPT ![sLys8] = 0]

\* the section "labels" of a run: the defaults, and for the description
\* [Lys8] also the section with the mass of Lys8 set to 0
LabelMassShifts(lab) ==
  IF lab = <<"[">> \o sLys8 \o <<"]">>
  THEN {DefaultLabelMassShift, Lys8MassZero}
  ELSE {DefaultLabelMassShift}

Init ==
  /\ labels_ \in LabelStrings
  /\ missed_cleavages_ \in 0..MaxMissedCleavages
  /\ knock_out_ \in BOOLEAN
  /\ label_massshift \in LabelMassShifts(labels_)
  /\ pc = "start"
  /\ labelling = NoLabelling
  /\ samples_labels = <<>>
  /\ list = <<>>
  /\ enumerated = <<>>
  /\ n_read = 0
  /\ exception = "none"
  /\ result = <<>>
  /\ PeakIdle
  /\ IntensityIdle
  /\ MapIdle
  /\ OtherIdle

Next ==
  \/ ClassifyLabelling
  \/ SplitLabels
  \/ CheckLabels
  \/ GenerateMassShiftList
  \/ KnockOut
  \/ KnockOutEmptyList
  \/ KnockOutPastEnd
  \/ Return

Spec == Init /\ [][Next]_vars

----------------------------------------------------------------------------
(* Properties of generateMassPatterns_ *)

Range(seq) == {seq[i] : i \in 1..Len(seq)}

\* the list of mass patterns has been generated (line 502 has been passed)
Generated == pc \in {"generated", "expanded", "done", "crashed"}

\* the call is over: by an exception, by a return or by a crash
Ended == pc \in {"thrown", "done", "crashed"}

\* the label families a label string mentions
FamiliesMentioned(lab) ==
  {f \in {"SILAC", "Dimethyl", "ICPL"} :
     \/ f = "SILAC" /\ (Contains(lab, sArg) \/ Contains(lab, sLys))
     \/ f = "Dimethyl" /\ Contains(lab, sDimethyl)
     \/ f = "ICPL" /\ Contains(lab, sICPL)}

\* C1: a label string that mentions labels of more than one of the families
\* SILAC (Arg*, Lys*), Dimethyl* and ICPL* makes generateMassPatterns_ throw
\* its configuration error at the labelling check; no sample is parsed, no
\* pattern is enumerated and no list is returned.
C1_MixedLabellingRejected ==
  (Cardinality(FamiliesMentioned(labels_)) > 1 /\ pc # "start") =>
    /\ pc = "thrown"
    /\ exception = "IllegalArgument"
    /\ samples_labels = <<>>
    /\ list = <<>>
    /\ result = <<>>

C1_Witness ==
  /\ Cardinality(FamiliesMentioned(labels_)) > 1
  /\ pc = "thrown"
  /\ exception = "IllegalArgument"

\* a label string that is a sequence of empty bracket pairs (possibly none)
OnlyEmptySamples(lab) ==
  /\ Len(lab) % 2 = 0
  /\ \A i \in 1..(Len(lab) \div 2) :
       <<lab[2 * i - 1], lab[2 * i]>> \in
         {<<"[", "]">>, <<"(", ")">>, <<"{", "}">>}

\* C2: for a sample description that is empty or consists only of empty
\* sample sets, and knock_out off, generateMassPatterns_ ends by returning
\* exactly the list with the one pattern [0], in mode none, without an error.
C2_EmptySamplesGiveSinglet ==
  (OnlyEmptySamples(labels_) /\ ~knock_out_ /\ Ended) =>
    /\ pc = "done"
    /\ labelling.none
    /\ result = << <<0>> >>

\* the label tokens of a label string: the pieces between the separators
\* inside every non-empty sample
Tokens(lab) == UNION {Range(sample) : sample \in Range(SplitSamples(lab))}

\* C3: a label string with a token that is not exactly a name of the label
\* set is rejected with a configuration error before any mass pattern is
\* produced: the call never gets past the label check.
C3_UnknownTokenRejected ==
  (\E token \in Tokens(labels_) : token \notin Range(LabelNames)) =>
    /\ pc \in {"start", "classified", "split", "thrown"}
    /\ list = <<>>

\* C4: every mass pattern of the returned list is non-empty and has 0 as
\* its first element, in every labelling mode, with and without knock-out
\* expansion.
C4_PatternsStartAtZero ==
  pc = "done" =>
    \A i \in 1..Len(result) : Len(result[i]) >= 1 /\ result[i][1] = 0

C4_Witness ==
  /\ pc = "done"
  /\ knock_out_
  /\ labelling.ICPL
  /\ n_read = 4
  /\ Len(result) > Len(enumerated)
  /\ \E i \in 1..Len(enumerated) : \E k \in 2..4 : enumerated[i][k] # 0

----------------------------------------------------------------------------

\* the mass of a label if it is a label of the residue class, else 0
ArgMass(token) ==
  IF token \in {sArg6, sArg10} THEN DefaultLabelMassShift[token] ELSE 0
LysMass(token) ==
  IF token \in {sLys4, sLys6, sLys8} THEN DefaultLabelMassShift[token] ELSE 0

\* a times the masses of the Arg labels of a sample plus l times the masses
\* of its Lys labels
RECURSIVE ResidueShift(_, _, _)
ResidueShift(sample, a, l) ==
  IF Len(sample) = 0 THEN 0
  ELSE a * ArgMass(sample[1]) + l * LysMass(sample[1])
         + ResidueShift(Tail(sample), a, l)

\* the residue counts (a, l) with a + l <= missed_cleavages + 1
ResidueCounts ==
  {al \in (0..(missed_cleavages_ + 1)) \X (0..(missed_cleavages_ + 1)) :
     al[1] + al[2] <= missed_cleavages_ + 1}

HasArgLabel(sample) == \E j \in 1..Len(sample) : sample[j] \in {sArg6, sArg10}
HasLysLabel(sample) ==
  \E j \in 1..Len(sample) : sample[j] \in {sLys4, sLys6, sLys8}

\* the shifts of the samples for the residue counts al = (a, l)
ShiftsOfPair(al) ==
  {ResidueShift(samples_labels[s], al[1], al[2]) : s \in 1..Len(samples_labels)}

\* a pattern made of the reference 0 and of sample shifts of the pair al
OfPair(pattern, al) ==
  pattern[1] = 0 /\ Range(Tail(pattern)) \subseteq ShiftsOfPair(al)

\* C5: in SILAC mode every enumerated pattern is the reference 0 followed by
\* shifts a * (Arg masses of s) + l * (Lys masses of s) of samples s for one
\* pair (a, l) with a + l <= missed_cleavages + 1; every such non-zero shift
\* of a sample with an Arg and a Lys label is in a pattern of its pair
\* (a, l); [Arg6,Lys8] with one missed cleavage yields the shifts 6.020,
\* 8.014 and 14.034; and the enumerated patterns are the first ones of the
\* returned list.
C5_SILACShifts ==
  /\ (labelling.SILAC /\ pc = "generated") =>
       /\ \A i \in 1..Len(enumerated) :
            \E al \in ResidueCounts : OfPair(enumerated[i], al)
       /\ \A al \in ResidueCounts :
            \A s \in 1..Len(samples_labels) :
              (/\ HasArgLabel(samples_labels[s])
               /\ HasLysLabel(samples_labels[s])
               /\ ResidueShift(samples_labels[s], al[1], al[2]) # 0) =>
                \E i \in 1..Len(enumerated) :
                  /\ ResidueShift(samples_labels[s], al[1], al[2])
                       \in Range(enumerated[i])
                  /\ OfPair(enumerated[i], al)
       /\ (labels_ = <<"[">> \o sArg6 \o <<",">> \o sLys8 \o <<"]">>
             /\ missed_cleavages_ = 1) =>
            {<<0, 6020129>>, <<0, 8014199>>, <<0, 14034328>>}
              \subseteq Range(enumerated)
  /\ (labelling.SILAC /\ pc = "done") =>
       enumerated = SubSeq(result, 1, Len(enumerated))

C5_Witness ==
  /\ pc = "done"
  /\ labelling.SILAC
  /\ labels_ = <<"[">> \o sArg6 \o <<",">> \o sLys8 \o <<"]">>
  /\ missed_cleavages_ = 1
  /\ <<0, 14034328>> \in Range(result)

\* the pair (a, l) is accepted as the claim C6 has it: every sample carries
\* a label of each residue class that is counted, and some shift is not 0
AcceptedForAllSamples(al) ==
  /\ al[1] > 0 => \A s \in 1..Len(samples_labels) : HasArgLabel(samples_labels[s])
  /\ al[2] > 0 => \A s \in 1..Len(samples_labels) : HasLysLabel(samples_labels[s])
  /\ \E s \in 1..Len(samples_labels) :
       ResidueShift(samples_labels[s], al[1], al[2]) # 0

\* every label token of the label string is a name of the label set
OnlyLabelNames(lab) == Tokens(lab) \subseteq Range(LabelNames)

\* C6: in SILAC mode a pattern is emitted for a pair (a, l) if and only if
\* every sample carries a label for each residue class with a count > 0 and
\* some sample shift is not 0: for a description of label names the
\* enumerated list has exactly one pattern per such pair, and none for a
\* pair for which a sample lacks the go-ahead.
C6_GoAheadOfEverySample ==
  (labelling.SILAC /\ Generated /\ OnlyLabelNames(labels_)) =>
    Len(enumerated) =
      Cardinality({al \in ResidueCounts : AcceptedForAllSamples(al)})

\* C7: in Dimethyl or ICPL mode the enumerated list has exactly
\* missed_cleavages + 1 patterns, in the order mc' = 0, 1, ..., each with
\* one entry per sample; when every sample carries a single label, entry s
\* of the pattern of mc' is (mc' + 1) * (mass of the label of sample s -
\* mass of the label of the first sample).
C7_ChemicalPatterns ==
  ((labelling.Dimethyl \/ labelling.ICPL) /\ Generated) =>
    /\ Len(enumerated) = missed_cleavages_ + 1
    /\ \A k \in 1..Len(enumerated) :
         Len(enumerated[k]) = Len(samples_labels)
    /\ (\A s \in 1..Len(samples_labels) : Len(samples_labels[s]) = 1) =>
         \A k \in 1..Len(enumerated) :
           \A s \in 1..Len(enumerated[k]) :
             enumerated[k][s] =
               k * (MassShift(DefaultLabelMassShift, samples_labels[s][1])
                    - MassShift(DefaultLabelMassShift, samples_labels[1][1]))

C7_Witness ==
  /\ pc = "done"
  /\ labelling.Dimethyl
  /\ missed_cleavages_ = 1
  /\ Len(samples_labels) = 3
  /\ \A s \in 1..Len(samples_labels) : Len(samples_labels[s]) = 1
  /\ enumerated[2][2] # 0
  /\ enumerated[2][3] # enumerated[2][2]

----------------------------------------------------------------------------

\* the positions of a set in increasing order
RECURSIVE Ascending(_)
Ascending(S) ==
  IF S = {} THEN <<>>
  ELSE LET lo == CHOOSE x \in S : \A y \in S : x <= y
       IN <<lo>> \o Ascending(S \ {lo})

\* the shifts of pattern P at the positions S, minus the shift at the first
\* position of S
SubPattern(P, S) ==
  LET pos == Ascending(S)
  IN [k \in 1..Len(pos) |-> P[pos[k]] - P[pos[1]]]

\* all enumerated patterns have the arity of the first one
SameArity == \A i \in 1..Len(enumerated) : Len(enumerated[i]) = Len(enumerated[1])

\* C8: with knock_out on, for every enumerated pattern P of arity 2, 3 or 4
\* and every non-empty strict subset S of its positions, the returned list
\* contains the sub-pattern of P at S (so every drop-one sub-pattern and the
\* singleton [0]); stated for the descriptions of label names whose
\* patterns all have one arity.
C8_KnockOutComplete ==
  (pc = "done" /\ knock_out_ /\ OnlyLabelNames(labels_) /\ SameArity) =>
    \A i \in 1..Len(enumerated) :
      Len(enumerated[i]) \in {2, 3, 4} =>
        \A S \in (SUBSET (1..Len(enumerated[i])))
                   \ {{}, 1..Len(enumerated[i])} :
          SubPattern(enumerated[i], S) \in Range(result)

\* C9: no entry of a returned mass pattern is negative, whatever the order
\* of the samples; stated for the descriptions of label names whose
\* patterns all have one arity.
C9_NoNegativeShift ==
  (pc = "done" /\ OnlyLabelNames(labels_) /\ SameArity) =>
    \A i \in 1..Len(result) : \A k \in 1..Len(result[i]) : result[i][k] >= 0

\* C10: the returned list is deduplicated: no two of its entries are the
\* same sequence of shifts; stated for the descriptions of label names
\* whose patterns all have one arity.
C10_NoDuplicatePattern ==
  (pc = "done" /\ OnlyLabelNames(labels_) /\ SameArity) =>
    \A i \in 1..Len(result) : \A j \in 1..Len(result) :
      i # j => result[i] # result[j]

----------------------------------------------------------------------------
(* Parameter handling and peak patterns: getParameters_algorithm_ and      *)
(* generatePeakPatterns_, as main_ calls them.  parseRange_ delivers the   *)
(* two numbers of a "min:max" parameter; they are whole numbers here, as   *)
(* charges and isotope counts are.                                         *)

MaxCharge == 4
MaxIsotopes == 3
MaxPatterns == 2

\* the variables of generateMassPatterns_ at rest
GenIdle ==
  /\ labels_ = sEmpty
  /\ missed_cleavages_ = 0
  /\ knock_out_ = FALSE
  /\ label_massshift = DefaultLabelMassShift
  /\ labelling = NoLabelling
  /\ samples_labels = <<>>
  /\ list = <<>>
  /\ enumerated = <<>>
  /\ n_read = 0
  /\ result = <<>>

\* mass patterns of one, two and three peptides
MassPatternPool == { <<0>>, <<0, 6020129>>, <<0, 4025107, 8014199>> }

MassPatternLists == UNION {[1..k -> MassPatternPool] : k \in 0..MaxPatterns}

\* lines 315-318 and 326-329: the two bounds, swapped when inverted
Swapped_Never(min, max) == <<min, max>>

Swapped(min, max) == IF min > max THEN <<max, min>> ELSE <<min, max>>

\* lines 304-329
getParameters_algorithm_ ==
  /\ pc = "main"
  /\ charge_min_' = Swapped(charge_temp[1], charge_temp[2])[1]
  /\ charge_max_' = Swapped(charge_temp[1], charge_temp[2])[2]
  /\ isotopes_per_peptide_min_' =
       Swapped(isotopes_per_peptide_temp[1], isotopes_per_peptide_temp[2])[1]
  /\ isotopes_per_peptide_max_' =
       Swapped(isotopes_per_peptide_temp[1], isotopes_per_peptide_temp[2])[2]
  /\ pc' = "parameters"
  /\ UNCHANGED <<charge_temp, isotopes_per_peptide_temp, masses, patterns,
                 exception>>
  /\ UNCHANGED <<genVars, intensityVars, mapVars, otherVars>>

\* line 611: MultiplexPeakPattern pattern(c, peaksPerPeptideMax,
\* massPatternList[i], i)
MultiplexPeakPattern(c, peaksPerPeptideMax, massPattern, i) ==
  [charge |-> c, peaksPerPeptideMax |-> peaksPerPeptideMax,
   massShifts |-> massPattern, massShiftIndex |-> i]

\* lines 607-613: the inner loop, i = 0 .. massPatternList.size() - 1
PatternsOfCharge(c, peaksPerPeptideMax, massPatternList) ==
  [k \in 1..Len(massPatternList) |->
     MultiplexPeakPattern(c, peaksPerPeptideMax, massPatternList[k], k - 1)]

\* lines 604-614 with the charges taken from charge_min upwards
RECURSIVE PatternsUpFrom(_, _, _, _)
PatternsUpFrom(c, charge_max, peaksPerPeptideMax, massPatternList) ==
  IF c > charge_max THEN <<>>
  ELSE PatternsOfCharge(c, peaksPerPeptideMax, massPatternList)
         \o PatternsUpFrom(c + 1, charge_max, peaksPerPeptideMax,
                           massPatternList)

\* lines 604-614: for (int c = charge_max; c >= charge_min; --c)
RECURSIVE PatternsDownFrom(_, _, _, _)
PatternsDownFrom(c, charge_min, peaksPerPeptideMax, massPatternList) ==
  IF c < charge_min THEN <<>>
  ELSE PatternsOfCharge(c, peaksPerPeptideMax, massPatternList)
         \o PatternsDownFrom(c - 1, charge_min, peaksPerPeptideMax,
                             massPatternList)

generatePeakPatterns_Ascending(charge_min, charge_max, peaksPerPeptideMax, massPatternList) ==
  PatternsUpFrom(charge_min, charge_max, peaksPerPeptideMax, massPatternList)

\* lines 599-619
generatePeakPatterns_(charge_min, charge_max, peaksPerPeptideMax, massPatternList) ==
  PatternsDownFrom(charge_max, charge_min, peaksPerPeptideMax,
                   massPatternList)

\* main_, lines 990-991 (the second statement; masses is the list that
\* generateMassPatterns_ returned)
CallGeneratePeakPatterns ==
  /\ pc = "parameters"
  /\ patterns' = generatePeakPatterns_(charge_min_, charge_max_,
                                       isotopes_per_peptide_max_, masses)
  /\ pc' = "patterns"
  /\ UNCHANGED <<charge_temp, isotopes_per_peptide_temp, charge_min_,
                 charge_max_, isotopes_per_peptide_min_,
                 isotopes_per_peptide_max_, masses, exception>>
  /\ UNCHANGED <<genVars, intensityVars, mapVars, otherVars>>

InitPeakPatterns ==
  /\ GenIdle
  /\ pc = "main"
  /\ exception = "none"
  /\ charge_temp \in (1..MaxCharge) \X (1..MaxCharge)
  /\ isotopes_per_peptide_temp \in (1..MaxIsotopes) \X (1..MaxIsotopes)
  /\ charge_min_ = 0
  /\ charge_max_ = 0
  /\ isotopes_per_peptide_min_ = 0
  /\ isotopes_per_peptide_max_ = 0
  /\ masses \in MassPatternLists
  /\ patterns = <<>>
  /\ IntensityIdle
  /\ MapIdle
  /\ OtherIdle

NextPeakPatterns ==
  \/ getParameters_algorithm_
  \/ CallGeneratePeakPatterns

SpecPeakPatterns == InitPeakPatterns /\ [][NextPeakPatterns]_vars

----------------------------------------------------------------------------
(* Claims about the parameter handling and the peak patterns               *)

\* C11: generatePeakPatterns_ returns one peak pattern per pair of a charge
\* of charge_min..charge_max and a mass pattern, (charge_max - charge_min
\* + 1) * |massPatternList| in all, by decreasing charge from charge_max to
\* charge_min and inside one charge in the order of massPatternList; each
\* carries its charge, the maximum isotope count and the index of its mass
\* pattern.
C11_OnePatternPerChargeAndMassPattern ==
  pc = "patterns" =>
    /\ Len(patterns) = (charge_max_ - charge_min_ + 1) * Len(masses)
    /\ \A k \in 1..Len(patterns) :
         /\ patterns[k].charge = charge_max_ - ((k - 1) \div Len(masses))
         /\ patterns[k].charge \in charge_min_..charge_max_
         /\ patterns[k].massShiftIndex = (k - 1) % Len(masses)
         /\ patterns[k].massShifts = masses[patterns[k].massShiftIndex + 1]
         /\ patterns[k].peaksPerPeptideMax = isotopes_per_peptide_max_

C11_Witness ==
  /\ pc = "patterns"
  /\ charge_max_ >= charge_min_ + 2
  /\ Len(masses) = 2
  /\ masses[1] # masses[2]
  /\ Len(patterns) = 6

\* C12: an inverted charge range or isotopes_per_peptide range (min > max)
\* is swapped, so that afterwards min <= max and the pair holds the same two
\* values, and processing goes on without an error; a range in order is
\* left as it is.
C12_InvertedRangeSwapped ==
  pc \in {"parameters", "patterns"} =>
    /\ exception = "none"
    /\ charge_min_ <= charge_max_
    /\ isotopes_per_peptide_min_ <= isotopes_per_peptide_max_
    /\ IF charge_temp[1] > charge_temp[2]
       THEN <<charge_min_, charge_max_>> = <<charge_temp[2], charge_temp[1]>>
       ELSE <<charge_min_, charge_max_>> = charge_temp
    /\ IF isotopes_per_peptide_temp[1] > isotopes_per_peptide_temp[2]
       THEN <<isotopes_per_peptide_min_, isotopes_per_peptide_max_>>
              = <<isotopes_per_peptide_temp[2], isotopes_per_peptide_temp[1]>>
       ELSE <<isotopes_per_peptide_min_, isotopes_per_peptide_max_>>
              = isotopes_per_peptide_temp

C12_Witness ==
  /\ pc = "patterns"
  /\ charge_temp[1] > charge_temp[2]
  /\ isotopes_per_peptide_temp[1] > isotopes_per_peptide_temp[2]
  /\ charge_min_ < charge_max_
  /\ Len(patterns) > 0

----------------------------------------------------------------------------
(* Intensities (C++ double) in the quantitation: NaN, plus and minus       *)
(* infinity, and the rationals, with the arithmetic of IEEE 754 on them    *)
(* (rounding and the sign of zero left aside).  A number is a record       *)
(* [nan, n, d]: the rational n/d in lowest terms with d > 0, or an         *)
(* infinity of sign n when d = 0.                                          *)

NaN == [nan |-> TRUE, n |-> 0, d |-> 1]

Abs(a) == IF a < 0 THEN 0 - a ELSE a

Sign(a) == IF a < 0 THEN 0 - 1 ELSE IF a > 0 THEN 1 ELSE 0

RECURSIVE GCD(_, _)
GCD(a, b) == IF b = 0 THEN a ELSE GCD(b, a % b)

Infinity(sign) == [nan |-> FALSE, n |-> sign, d |-> 0]

\* the rational n/d (d # 0), or the value of n/d for d = 0
Ratio(n, d) ==
  IF d = 0
  THEN (IF n = 0 THEN NaN ELSE Infinity(Sign(n)))
  ELSE [nan |-> FALSE,
        n |-> (Sign(d) * n) \div GCD(Abs(n), Abs(d)),
        d |-> Abs(d) \div GCD(Abs(n), Abs(d))]

Number(k) == [nan |-> FALSE, n |-> k, d |-> 1]

\* boost::math::isnan
isnan(x) == x.nan

isinf(x) == ~x.nan /\ x.d = 0

\* x + y
Plus(x, y) ==
  IF x.nan \/ y.nan THEN NaN
  ELSE IF x.d = 0 /\ y.d = 0 THEN (IF x.n = y.n THEN x ELSE NaN)
  ELSE IF x.d = 0 THEN x
  ELSE IF y.d = 0 THEN y
  ELSE Ratio(x.n * y.d + y.n * x.d, x.d * y.d)

\* x * y
Times(x, y) ==
  IF x.nan \/ y.nan THEN NaN ELSE Ratio(x.n * y.n, x.d * y.d)

\* x / y
Over(x, y) ==
  IF x.nan \/ y.nan THEN NaN
  ELSE IF x.d = 0 /\ y.d = 0 THEN NaN
  ELSE IF x.d = 0 THEN Infinity(IF y.n < 0 THEN 0 - x.n ELSE x.n)
  ELSE Ratio(x.n * y.d, x.d * y.n)

\* x - y
Minus(x, y) == Plus(x, Times(Number(0 - 1), y))

----------------------------------------------------------------------------
(* getPeptideIntensities and LinearRegressionWithoutIntercept              *)

\* the profile data of one call hold at most MaxData intensities
MaxData == 6

ProfileValues == {NaN, Number(0), Number(1), Number(2)}

\* peptides x samples, every peptide with the same number of samples
ProfileMatrices ==
  UNION {[1..n -> [1..count -> ProfileValues]] :
           <<n, count>> \in {nc \in (1..MaxData) \X (0..MaxData) :
                               nc[1] * nc[2] <= MaxData}}

\* the last peptide is one sample short
OneShort(m) ==
  [i \in 1..Len(m) |->
     IF i = Len(m) THEN SubSeq(m[i], 1, Len(m[i]) - 1) ELSE m[i]]

RaggedProfiles ==
  {OneShort(m) : m \in {mm \in ProfileMatrices :
                          Len(mm) >= 2 /\ Len(mm[1]) >= 1}}

\* lines 629-636: do all vectors have the size of the first?
SameSizes(profile) ==
  \A i \in 1..Len(profile) : Len(profile[i]) = Len(profile[1])

\* line 650: the samples j kept for peptide i, in order
Kept(x1, xi) ==
  LET both(j) == ~isnan(x1[j]) /\ ~isnan(xi[j])
  IN SelectSeq([j \in 1..Len(x1) |-> j], both)

\* lines 652-653: intensities1 and intensities2
Filtered(x, kept) == [k \in 1..Len(kept) |-> x[kept[k]]]

\* line 654 over the loop 648-656: intensity += profile_intensities[i][j]
RECURSIVE SumUpTo(_, _)
SumUpTo(x, k) == IF k = 0 THEN Number(0) ELSE Plus(SumUpTo(x, k - 1), x[k])

\* lines 882-888 over the loop 898-901: the sum of the products x[i] * y[i]
RECURSIVE SumOfProducts(_, _, _)
SumOfProducts(x, y, k) ==
  IF k = 0 THEN Number(0)
  ELSE Plus(SumOfProducts(x, y, k - 1), Times(x[k], y[k]))

\* lines 871-874 and 896-902: a regression after addData(x, y)
addData(x, y) ==
  [sum_xx_ |-> SumOfProducts(x, x, Len(x)),
   sum_xy_ |-> SumOfProducts(x, y, Len(x)),
   n_ |-> Len(x)]

\* lines 907-914
getSlope(linreg) ==
  IF linreg.n_ < 2 THEN NaN ELSE Over(linreg.sum_xy_, linreg.sum_xx_)

\* lines 658-660: the ratio of peptide i
RatioOf(x1, xi) ==
  getSlope(addData(Filtered(x1, Kept(x1, xi)), Filtered(xi, Kept(x1, xi))))

\* lines 647-656 and 661: the intensity of peptide i
IntensityOf(x1, xi) ==
  SumUpTo(Filtered(xi, Kept(x1, xi)), Len(Kept(x1, xi)))

\* lines 680-684 applied whatever the number of peptides
Corrected_LightFixed(ints, rats) ==
  [i \in 1..Len(ints) |->
     IF i = 1 THEN ints[1] ELSE Times(rats[i], ints[1])]

\* lines 665-691: the corrected intensities
Corrected(ints, rats) ==
  IF Len(ints) = 2
  THEN << Over(Plus(ints[1], Times(rats[2], ints[2])),
               Plus(Number(1), Times(rats[2], rats[2]))),
          Times(rats[2],
                Over(Plus(ints[1], Times(rats[2], ints[2])),
                     Plus(Number(1), Times(rats[2], rats[2])))) >>
  ELSE IF Len(ints) > 2
  THEN [i \in 1..Len(ints) |->
          IF i = 1 THEN ints[1] ELSE Times(rats[i], ints[1])]
  ELSE << ints[1] >>

\* lines 629-636
CheckSizes ==
  /\ pc = "call"
  /\ IF SameSizes(profile_intensities)
     THEN pc' = "sized" /\ exception' = exception
     ELSE pc' = "thrown" /\ exception' = "IllegalArgument"
  /\ UNCHANGED <<profile_intensities, ratios, intensities,
                 corrected_intensities>>
  /\ UNCHANGED <<genVars, peakVars, mapVars, otherVars>>

\* lines 638-663
Regress ==
  /\ pc = "sized"
  /\ ratios' = [i \in 1..Len(profile_intensities) |->
                  RatioOf(profile_intensities[1], profile_intensities[i])]
  /\ intensities' = [i \in 1..Len(profile_intensities) |->
                       IntensityOf(profile_intensities[1],
                                   profile_intensities[i])]
  /\ pc' = "regressed"
  /\ UNCHANGED <<profile_intensities, corrected_intensities, exception>>
  /\ UNCHANGED <<genVars, peakVars, mapVars, otherVars>>

\* lines 665-691
Correct ==
  /\ pc = "regressed"
  /\ corrected_intensities' = Corrected(intensities, ratios)
  /\ pc' = "returned"
  /\ UNCHANGED <<profile_intensities, ratios, intensities, exception>>
  /\ UNCHANGED <<genVars, peakVars, mapVars, otherVars>>

InitIntensities ==
  /\ GenIdle
  /\ PeakIdle
  /\ pc = "call"
  /\ exception = "none"
  /\ profile_intensities \in ProfileMatrices \cup RaggedProfiles
  /\ ratios = <<>>
  /\ intensities = <<>>
  /\ corrected_intensities = <<>>
  /\ MapIdle
  /\ OtherIdle

NextIntensities ==
  \/ CheckSizes
  \/ Regress
  \/ Correct

SpecIntensities == InitIntensities /\ [][NextIntensities]_vars

----------------------------------------------------------------------------
(* Claims about getPeptideIntensities                                      *)

Regressed == pc \in {"regressed", "returned"}

Light == profile_intensities[1]

\* the samples at which neither the light peptide nor peptide p is NaN
Pairs(p) ==
  {j \in 1..Len(Light) :
     ~isnan(Light[j]) /\ ~isnan(profile_intensities[p][j])}

\* the sum of x_p[j] * x_1[j] over the pairs of p
SumXY(p) ==
  SumUpTo([j \in 1..Len(Light) |->
             IF j \in Pairs(p)
             THEN Times(profile_intensities[p][j], Light[j])
             ELSE Number(0)], Len(Light))

\* the sum of x_1[j]^2 over the pairs of p
SumXX(p) ==
  SumUpTo([j \in 1..Len(Light) |->
             IF j \in Pairs(p) THEN Times(Light[j], Light[j])
             ELSE Number(0)], Len(Light))

\* C13: the ratio of every labelled peptide p is the slope through the
\* origin, (sum of x_p * x_1) / (sum of x_1^2), over exactly the samples at
\* which neither x_1 nor x_p is NaN, for every number >= 1 of such samples.
C13_RatioIsSlopeOverPairs ==
  Regressed =>
    \A p \in 2..Len(profile_intensities) :
      Pairs(p) # {} => ratios[p] = Over(SumXY(p), SumXX(p))

\* the sum of x_p[j] over the samples at which x_p[j] is not NaN
OwnSum(p) ==
  SumUpTo([j \in 1..Len(profile_intensities[p]) |->
             IF isnan(profile_intensities[p][j]) THEN Number(0)
             ELSE profile_intensities[p][j]], Len(profile_intensities[p]))

\* C14: the raw intensity of peptide p is the sum of x_p[j] over all
\* samples j at which x_p[j] is not NaN, whether or not the light peptide
\* is NaN at j.
C14_RawIntensityOverOwnSamples ==
  Regressed =>
    \A p \in 1..Len(profile_intensities) : intensities[p] = OwnSum(p)

\* C15: one corrected intensity per peptide: I_1 for n = 1; for n = 2
\* I_1' = (I_1 + r * I_2) / (1 + r^2) and I_2' = r * I_1', the point of the
\* line (t, r * t) closest to (I_1, I_2); for n >= 3 I_1' = I_1 and
\* I_p' = r_p * I_1, so that I_p' = r_p * I_1' for every p >= 2.
C15_CorrectedIntensities ==
  pc = "returned" =>
    /\ Len(corrected_intensities) = Len(profile_intensities)
    /\ Len(profile_intensities) = 1 =>
         corrected_intensities[1] = intensities[1]
    /\ Len(profile_intensities) = 2 =>
         /\ corrected_intensities[1] =
              Over(Plus(intensities[1], Times(ratios[2], intensities[2])),
                   Plus(Number(1), Times(ratios[2], ratios[2])))
         \* the residual is orthogonal to the direction (1, r) of the line
         /\ ~isnan(ratios[2]) =>
              Plus(Minus(intensities[1], corrected_intensities[1]),
                   Times(ratios[2], Minus(intensities[2],
                                          corrected_intensities[2])))
                = Number(0)
    /\ Len(profile_intensities) >= 3 =>
         corrected_intensities[1] = intensities[1]
    /\ \A p \in 2..Len(profile_intensities) :
         corrected_intensities[p] = Times(ratios[p], corrected_intensities[1])

C15_Witness ==
  /\ pc = "returned"
  /\ Len(profile_intensities) = 2
  /\ ~isnan(ratios[2])
  /\ corrected_intensities[1] # intensities[1]
  /\ corrected_intensities[2] # intensities[2]
  /\ corrected_intensities[2] # Times(ratios[2], intensities[1])

\* C16: when the denominator of the regression of a peptide (the sum of
\* x_1^2 over its pairs) is zero, its slope is NaN and the failure stays
\* with that peptide: no other peptide, whose own ratio is a number, gets a
\* corrected intensity that is NaN or infinite.
C16_ZeroDenominatorAbsorbed ==
  pc = "returned" =>
    \A p \in 1..Len(profile_intensities) :
      SumXX(p) = Number(0) =>
        /\ isnan(ratios[p])
        /\ \A q \in 1..Len(profile_intensities) :
             q # p /\ ~isnan(ratios[q]) =>
               /\ ~isnan(corrected_intensities[q])
               /\ ~isinf(corrected_intensities[q])

----------------------------------------------------------------------------
(* generateMaps_, writeConsensusMap_ and writeFeatureMap_, as main_ calls  *)
(* them after filtering and clustering.  The filter result of a pattern    *)
(* is a list of three result peaks; a cluster is a list of indices of      *)
(* result peaks (its points).  Arrays are indexed from 0 in the code, so   *)
(* At(a, k) reads a[k].  Peak intensities are positive, as the peaks that  *)
(* pass the intensity cutoff of the filter are.                            *)

\* at most MaxClusters clusters in all, of at most MaxPoints points each
MaxClusters == 2
MaxPoints == 2

At(a, k) == a[k + 1]

\* one result peak q (1, 2 or 3) of a pattern with n peptides: its position,
\* the m/z shifts and intensities of its (isotopes + 1) * n slots, and its
\* raw data points, each with the intensities of the slots (NaN where the
\* spline has no value)
ResultPeak(q, n, isotopes) ==
  [rt |-> Number(<<20, 10, 10>>[q]),
   mz |-> Number(<<400, 500, 300>>[q]),
   mz_shifts |-> [k \in 1..((isotopes + 1) * n) |-> Number(k - 1)],
   intensities |-> [k \in 1..((isotopes + 1) * n) |-> Number(q + k - 1)],
   raw |-> [i \in 1..(1 + (q % 2)) |->
              [k \in 1..((isotopes + 1) * n) |->
                 IF (q + i + k) % 5 = 0 THEN NaN
                 ELSE Number(1 + ((q * k + i) % 3))]]]

\* filter_results[pattern]: the result peaks of one pattern
FilterResult(pat, isotopes) ==
  [q \in 1..3 |-> ResultPeak(q, Len(pat.massShifts), isotopes)]

\* the points of a cluster: distinct indices of result peaks, ascending
PointLists ==
  {s \in UNION {[1..k -> 0..2] : k \in 1..MaxPoints} :
     \A i \in 1..Len(s) : \A j \in 1..Len(s) : i < j => s[i] < s[j]}

\* t clusters dealt to np patterns: owner[c] is the pattern of cluster c
Dealt(clusters, owner, np) ==
  [p \in 1..np |->
     LET mine(c) == owner[c] = p
     IN [k \in 1..Len(SelectSeq([c \in 1..Len(clusters) |-> c], mine)) |->
           clusters[SelectSeq([c \in 1..Len(clusters) |-> c], mine)[k]]]]

\* cluster_results for np patterns
ClusterResults(np) ==
  UNION {{Dealt(clusters, owner, np) :
            clusters \in [1..t -> PointLists],
            owner \in {o \in [1..t -> 1..np] :
                         \A c \in 1..t : c < t => o[c] <= o[c + 1]}} :
         t \in 0..MaxClusters}

\* the configurations: the singleton pattern, a doublet at two charges, and
\* a triplet together with a singlet
MapConfigurations ==
  { [charge_min |-> 2, charge_max |-> 2, isotopes |-> 1,
     masses |-> << <<0>> >>],
    [charge_min |-> 2, charge_max |-> 3, isotopes |-> 2,
     masses |-> << <<0, 6020129>> >>],
    [charge_min |-> 2, charge_max |-> 2, isotopes |-> 1,
     masses |-> << <<0, 4025107, 8014199>>, <<0>> >>] }

\* lines 629-691 for vectors of one size (as generateMaps_ builds them)
getPeptideIntensities(profile) ==
  Corrected([i \in 1..Len(profile) |-> IntensityOf(profile[1], profile[i])],
            [i \in 1..Len(profile) |-> RatioOf(profile[1], profile[i])])

\* the slot of the mono-isotopic peak of a peptide (lines 756-758)
MonoSlot_Zeroth(peptide, isotopes) == (isotopes + 1) * peptide

MonoSlot(peptide, isotopes) == (isotopes + 1) * peptide + 1

\* lines 756-758 over the loop 746-777: the three sums of one peptide
SumIntensityMZ(peaks, points, peptide, isotopes) ==
  SumUpTo([k \in 1..Len(points) |->
             Times(Plus(At(peaks, points[k]).mz,
                        At(At(peaks, points[k]).mz_shifts,
                           MonoSlot(peptide, isotopes))),
                   At(At(peaks, points[k]).intensities,
                      MonoSlot(peptide, isotopes)))], Len(points))

SumIntensityRT(peaks, points, peptide, isotopes) ==
  SumUpTo([k \in 1..Len(points) |->
             Times(At(peaks, points[k]).rt,
                   At(At(peaks, points[k]).intensities,
                      MonoSlot(peptide, isotopes)))], Len(points))

SumIntensity(peaks, points, peptide, isotopes) ==
  SumUpTo([k \in 1..Len(points) |->
             At(At(peaks, points[k]).intensities,
                MonoSlot(peptide, isotopes))], Len(points))

\* lines 768-775: the values one raw data point adds to the profile of a
\* peptide, one per isotopic peak
RawProfile(raw, peptide, isotopes) ==
  [peak \in 1..isotopes |->
     At(raw, (isotopes + 1) * peptide + (peak - 1) + 1)]

\* lines 763-776: the values one result peak adds
RECURSIVE PeakProfile(_, _, _, _)
PeakProfile(peak, i, peptide, isotopes) ==
  IF i = 0 THEN <<>>
  ELSE PeakProfile(peak, i - 1, peptide, isotopes)
         \o RawProfile(peak.raw[i], peptide, isotopes)

\* lines 746-777: the profile intensities of one peptide in a cluster
RECURSIVE ClusterProfile(_, _, _, _, _)
ClusterProfile(peaks, points, k, peptide, isotopes) ==
  IF k = 0 THEN <<>>
  ELSE ClusterProfile(peaks, points, k - 1, peptide, isotopes)
         \o PeakProfile(At(peaks, points[k]),
                        Len(At(peaks, points[k]).raw), peptide, isotopes)

\* lines 734-739 and 746-780
PeptideIntensities(pat, peaks, points, isotopes) ==
  getPeptideIntensities(
    [p \in 1..Len(pat.massShifts) |->
       ClusterProfile(peaks, points, Len(points), p - 1, isotopes)])

\* lines 783-788
AveragePeptideIntensity(peptide_intensities) ==
  Over(SumUpTo(peptide_intensities, Len(peptide_intensities)),
       Number(Len(peptide_intensities)))

\* lines 795 and 814: 1 - 1/points.size(), an integer expression of the
\* type of points.size(), converted to the quality's floating type
Quality(size) == Number(1 - (1 \div size))

\* lines 799-804: the feature handle of a peptide
FeatureHandle(pat, peaks, points, peptide, isotopes, peptide_intensities) ==
  [mz |-> Over(SumIntensityMZ(peaks, points, peptide, isotopes),
               SumIntensity(peaks, points, peptide, isotopes)),
   rt |-> Over(SumIntensityRT(peaks, points, peptide, isotopes),
               SumIntensity(peaks, points, peptide, isotopes)),
   intensity |-> At(peptide_intensities, peptide),
   charge |-> pat.charge,
   map_index |-> peptide]

\* lines 809-814: the feature of a peptide
Feature(pat, peaks, points, peptide, isotopes, peptide_intensities) ==
  [mz |-> Over(SumIntensityMZ(peaks, points, peptide, isotopes),
               SumIntensity(peaks, points, peptide, isotopes)),
   rt |-> Over(SumIntensityRT(peaks, points, peptide, isotopes),
               SumIntensity(peaks, points, peptide, isotopes)),
   intensity |-> At(peptide_intensities, peptide),
   charge |-> pat.charge,
   quality |-> Quality(Len(points))]

\* lines 719, 791-795 and 797-807: the consensus of a cluster; its handles
\* are a set, ordered by map index
Consensus(pat, peaks, points, isotopes, peptide_intensities) ==
  [mz |-> Over(SumIntensityMZ(peaks, points, 0, isotopes),
               SumIntensity(peaks, points, 0, isotopes)),
   rt |-> Over(SumIntensityRT(peaks, points, 0, isotopes),
               SumIntensity(peaks, points, 0, isotopes)),
   intensity |-> AveragePeptideIntensity(peptide_intensities),
   charge |-> pat.charge,
   quality |-> Quality(Len(points)),
   handles |-> {FeatureHandle(pat, peaks, points, p - 1, isotopes,
                              peptide_intensities) :
                  p \in 1..Len(pat.massShifts)}]

\* lines 809-815 without the loop over the peptides
ClusterFeatures_LightOnly(pat, peaks, points, isotopes, peptide_intensities) ==
  << Feature(pat, peaks, points, 0, isotopes, peptide_intensities) >>

\* lines 797-816: the features of a cluster, in the order of the peptides
ClusterFeatures(pat, peaks, points, isotopes, peptide_intensities) ==
  [p \in 1..Len(pat.massShifts) |->
     Feature(pat, peaks, points, p - 1, isotopes, peptide_intensities)]

\* the concatenation of the first k sequences of seqs
RECURSIVE Concat(_, _)
Concat(seqs, k) == IF k = 0 THEN <<>> ELSE Concat(seqs, k - 1) \o seqs[k]

\* lines 717-819: the consensuses of the clusters of one pattern, in the
\* order of the keys of the clusters
PatternConsensuses(pat, clusters, isotopes) ==
  [c \in 1..Len(clusters) |->
     Consensus(pat, FilterResult(pat, isotopes), clusters[c], isotopes,
               PeptideIntensities(pat, FilterResult(pat, isotopes),
                                  clusters[c], isotopes))]

\* lines 717-819: the features of the clusters of one pattern
PatternFeatures(pat, clusters, isotopes) ==
  Concat([c \in 1..Len(clusters) |->
            ClusterFeatures(pat, FilterResult(pat, isotopes), clusters[c],
                            isotopes,
                            PeptideIntensities(pat,
                                               FilterResult(pat, isotopes),
                                               clusters[c], isotopes))],
         Len(clusters))

\* line 806 over both loops: getFileDescriptions()[peptide].size, for the
\* peptides that got an entry
FileDescriptionSizes(pats, clusters) ==
  [peptide \in {p \in 0..2 : \E k \in 1..Len(pats) :
                  Len(clusters[k]) > 0 /\ p < Len(pats[k].massShifts)} |->
     SumUpTo([k \in 1..Len(pats) |->
                Number(IF peptide < Len(pats[k].massShifts)
                       THEN Len(clusters[k]) ELSE 0)], Len(pats)).n]

\* lines 703-823
generateMaps_ ==
  /\ pc = "clustered"
  /\ consensus_map' =
       Concat([k \in 1..Len(patterns) |->
                 PatternConsensuses(patterns[k], cluster_results[k],
                                    isotopes_per_peptide_max_)],
              Len(patterns))
  /\ feature_map' =
       Concat([k \in 1..Len(patterns) |->
                 PatternFeatures(patterns[k], cluster_results[k],
                                 isotopes_per_peptide_max_)],
              Len(patterns))
  /\ file_descriptions' = FileDescriptionSizes(patterns, cluster_results)
  /\ pc' = "maps_generated"
  /\ UNCHANGED <<cluster_results, stored_consensus, stored_features,
                 exception>>
  /\ UNCHANGED <<genVars, peakVars, intensityVars, otherVars>>

\* x < y on doubles
Less(x, y) ==
  /\ ~x.nan /\ ~y.nan
  /\ IF x.d = 0 \/ y.d = 0
     THEN (x.d = 0 /\ x.n < 0 /\ ~(y.d = 0 /\ y.n < 0))
            \/ (y.d = 0 /\ y.n > 0 /\ ~(x.d = 0 /\ x.n > 0))
     ELSE x.n * y.d < y.n * x.d

\* the order of positions: by rt, then by m/z
PositionLess(a, b) ==
  Less(a.rt, b.rt) \/ (a.rt = b.rt /\ Less(a.mz, b.mz))

\* e put behind the elements of the sorted list that are not greater
InsertByPosition(sorted, e) ==
  LET notGreater(x) == ~PositionLess(e, x)
  IN SelectSeq(sorted, notGreater) \o <<e>>
       \o SelectSeq(sorted, LAMBDA x : PositionLess(e, x))

\* sortByPosition of ConsensusMap and FeatureMap: a stable sort
RECURSIVE sortByPosition(_, _)
sortByPosition(map, k) ==
  IF k = 0 THEN <<>>
  ELSE InsertByPosition(sortByPosition(map, k - 1), map[k])

\* lines 834 and 854, applyMemberFunction(&UniqueIdInterface::setUniqueId)
\* on a map of n elements: element k of the sorted map gets the id k,
\* whenever the map is written
setUniqueId(n) == [k \in 1..n |-> k]

\* lines 831-843 with the map stored as generateMaps_ left it
writeConsensusMap_Unsorted ==
  /\ pc = "maps_generated"
  /\ stored_consensus' = consensus_map
  /\ file_descriptions' =
       IF 0 \in DOMAIN file_descriptions THEN file_descriptions
       ELSE (0 :> 0) @@ file_descriptions
  /\ unique_ids' =
       [unique_ids EXCEPT !.consensus = setUniqueId(Len(consensus_map))]
  /\ pc' = "consensus_written"
  /\ UNCHANGED <<cluster_results, consensus_map, feature_map,
                 stored_features, exception>>
  /\ UNCHANGED <<genVars, peakVars, intensityVars, navVars, exp, exit_code,
                 previous>>

\* lines 831-843: sort, then store
writeConsensusMap_ ==
  /\ pc = "maps_generated"
  /\ consensus_map' = sortByPosition(consensus_map, Len(consensus_map))
  /\ stored_consensus' = consensus_map'
  /\ file_descriptions' =
       IF 0 \in DOMAIN file_descriptions THEN file_descriptions
       ELSE (0 :> 0) @@ file_descriptions
  /\ unique_ids' =
       [unique_ids EXCEPT !.consensus = setUniqueId(Len(consensus_map))]
  /\ pc' = "consensus_written"
  /\ UNCHANGED <<cluster_results, feature_map, stored_features, exception>>
  /\ UNCHANGED <<genVars, peakVars, intensityVars, navVars, exp, exit_code,
                 previous>>

\* lines 851-858: sort, then store
writeFeatureMap_ ==
  /\ pc = "consensus_written"
  /\ feature_map' = sortByPosition(feature_map, Len(feature_map))
  /\ stored_features' = feature_map'
  /\ unique_ids' =
       [unique_ids EXCEPT !.features = setUniqueId(Len(feature_map))]
  /\ pc' = "written"
  /\ UNCHANGED <<cluster_results, consensus_map, file_descriptions,
                 stored_consensus, exception>>
  /\ UNCHANGED <<genVars, peakVars, intensityVars, navVars, exp, exit_code,
                 previous>>

\* main_ after line 999: the patterns, and the clusters of their filter
\* results
InitMaps ==
  /\ GenIdle
  /\ IntensityIdle
  /\ pc = "clustered"
  /\ exception = "none"
  /\ \E cfg \in MapConfigurations :
       /\ charge_temp = <<cfg.charge_min, cfg.charge_max>>
       /\ charge_min_ = cfg.charge_min
       /\ charge_max_ = cfg.charge_max
       /\ isotopes_per_peptide_temp = <<cfg.isotopes, cfg.isotopes>>
       /\ isotopes_per_peptide_min_ = cfg.isotopes
       /\ isotopes_per_peptide_max_ = cfg.isotopes
       /\ masses = cfg.masses
       /\ patterns = generatePeakPatterns_(cfg.charge_min, cfg.charge_max,
                                           cfg.isotopes, cfg.masses)
       /\ cluster_results \in
            ClusterResults((cfg.charge_max - cfg.charge_min + 1)
                             * Len(cfg.masses))
  /\ consensus_map = <<>>
  /\ feature_map = <<>>
  /\ file_descriptions = <<>>
  /\ stored_consensus = <<>>
  /\ stored_features = <<>>
  /\ OtherIdle

NextMaps ==
  \/ generateMaps_
  \/ writeConsensusMap_
  \/ writeFeatureMap_

SpecMaps == InitMaps /\ [][NextMaps]_vars

----------------------------------------------------------------------------
(* Claims about generateMaps_ and the stored maps                          *)

\* the clusters in the order generateMaps_ visits them: pattern by pattern
ClusterList ==
  Concat([k \in 1..Len(patterns) |->
            [c \in 1..Len(cluster_results[k]) |->
               [pat |-> patterns[k], points |-> cluster_results[k][c]]]],
         Len(patterns))

\* for every feature of the feature map, in the order generateMaps_ appends
\* them: its cluster and its peptide
FeatureList ==
  Concat([i \in 1..Len(ClusterList) |->
            [p \in 1..Len(ClusterList[i].pat.massShifts) |->
               [cluster |-> i, peptide |-> p - 1]]],
         Len(ClusterList))

\* C17: for every cluster with k >= 1 points, the quality of its consensus
\* feature and of its features is 1 - 1/k (0, 1/2, 2/3, ...), in [0, 1].
C17_QualityOfCluster ==
  pc = "maps_generated" =>
    /\ \A i \in 1..Len(ClusterList) :
         /\ consensus_map[i].quality
              = Minus(Number(1), Ratio(1, Len(ClusterList[i].points)))
         /\ ~Less(consensus_map[i].quality, Number(0))
         /\ ~Less(Number(1), consensus_map[i].quality)
    /\ \A j \in 1..Len(FeatureList) :
         feature_map[j].quality
           = Minus(Number(1),
                   Ratio(1, Len(ClusterList[FeatureList[j].cluster].points)))

\* the result peaks of the points of a cluster
PeaksOf(cluster) ==
  [k \in 1..Len(cluster.points) |->
     At(FilterResult(cluster.pat, isotopes_per_peptide_max_),
        cluster.points[k])]

\* the mono-isotope slot of a peptide: behind the zeroth peak
SlotOfMonoIsotope(peptide) == (isotopes_per_peptide_max_ + 1) * peptide + 1

\* the weight of a peak for a peptide: the intensity of the mono-isotope slot
Weight(peak, peptide) == peak.intensities[SlotOfMonoIsotope(peptide) + 1]

\* position is the centre of mass of the peptide over the peaks: the
\* weighted sums of rt and of m/z + m/z shift are position times the total
\* weight
CentreOfMass(position, peaks, peptide) ==
  /\ Times(position.rt,
           SumUpTo([k \in 1..Len(peaks) |-> Weight(peaks[k], peptide)],
                   Len(peaks))) =
       SumUpTo([k \in 1..Len(peaks) |->
                  Times(peaks[k].rt, Weight(peaks[k], peptide))], Len(peaks))
  /\ Times(position.mz,
           SumUpTo([k \in 1..Len(peaks) |-> Weight(peaks[k], peptide)],
                   Len(peaks))) =
       SumUpTo([k \in 1..Len(peaks) |->
                  Times(Plus(peaks[k].mz,
                             peaks[k].mz_shifts[
                               SlotOfMonoIsotope(peptide) + 1]),
                        Weight(peaks[k], peptide))], Len(peaks))

\* the corrected peptide intensities of a cluster
CorrectedOf(cluster) ==
  PeptideIntensities(cluster.pat,
                     FilterResult(cluster.pat, isotopes_per_peptide_max_),
                     cluster.points, isotopes_per_peptide_max_)

\* the consensus of a cluster with these peaks and corrected intensities
ConsensusOfCluster(consensus, peaks, corrected) ==
  /\ CentreOfMass(consensus, peaks, 0)
  /\ \A h \in consensus.handles : CentreOfMass(h, peaks, h.map_index)
  /\ Times(consensus.intensity, Number(Len(corrected)))
       = SumUpTo(corrected, Len(corrected))

\* the features of the feature map from index j on are those of the
\* clusters from index i on
RECURSIVE FeaturesOfClusters(_, _, _)
FeaturesOfClusters(clusters, i, j) ==
  i <= Len(clusters) =>
    /\ \A p \in 1..Len(clusters[i].pat.massShifts) :
         CentreOfMass(feature_map[j + p - 1], PeaksOf(clusters[i]), p - 1)
    /\ FeaturesOfClusters(clusters, i + 1,
                          j + Len(clusters[i].pat.massShifts))

\* every consensus and every feature of these clusters
CentresOfMass(clusters) ==
  /\ \A i \in 1..Len(clusters) :
       ConsensusOfCluster(consensus_map[i], PeaksOf(clusters[i]),
                          CorrectedOf(clusters[i]))
  /\ FeaturesOfClusters(clusters, 1, 1)

\* C18: for every cluster the consensus position is the centre of mass of
\* the light peptide (rt and probe m/z + m/z shift of the mono-isotope slot,
\* weighted by the intensity of that slot), the position of each feature is
\* the centre of mass of its own peptide, and the consensus intensity is the
\* arithmetic mean of the corrected peptide intensities.
C18_CentreOfMassAndMeanIntensity ==
  pc = "maps_generated" => CentresOfMass(ClusterList)

C18_Witness ==
  /\ pc = "maps_generated"
  /\ \E i \in 1..Len(ClusterList) :
       /\ Len(ClusterList[i].points) >= 2
       /\ Len(ClusterList[i].pat.massShifts) >= 2
       /\ ~isnan(consensus_map[i].intensity)
       /\ consensus_map[i].intensity # CorrectedOf(ClusterList[i])[1]
       /\ \E h \in consensus_map[i].handles :
            h.rt # consensus_map[i].rt /\ h.mz # consensus_map[i].mz

\* C19: exactly one consensus feature per cluster and none otherwise; the
\* consensus of a cluster of a pattern with n peptides has exactly n feature
\* handles, with the map indices 0..n-1 and the charge of the pattern, and n
\* features are appended to the feature map for it; with the singleton
\* pattern every consensus has exactly one feature.
C19_OneConsensusPerCluster ==
  pc \in {"maps_generated", "consensus_written", "written"} =>
    /\ Len(consensus_map) = Len(ClusterList)
    /\ Len(feature_map) = Len(FeatureList)
    /\ pc = "maps_generated" =>
         /\ \A i \in 1..Len(ClusterList) :
              /\ Cardinality(consensus_map[i].handles)
                   = Len(ClusterList[i].pat.massShifts)
              /\ {h.map_index : h \in consensus_map[i].handles}
                   = 0..(Len(ClusterList[i].pat.massShifts) - 1)
              /\ \A h \in consensus_map[i].handles :
                   h.charge = ClusterList[i].pat.charge
              /\ consensus_map[i].charge = ClusterList[i].pat.charge
              /\ ClusterList[i].pat.massShifts = <<0>> =>
                   Cardinality(consensus_map[i].handles) = 1
         /\ \A j \in 1..Len(FeatureList) :
              feature_map[j].charge
                = ClusterList[FeatureList[j].cluster].pat.charge

C19_Witness ==
  /\ pc = "maps_generated"
  /\ Len(patterns) = 2
  /\ Len(cluster_results[1]) = 1
  /\ Len(cluster_results[2]) = 1
  /\ Len(patterns[1].massShifts) = 3
  /\ Len(patterns[2].massShifts) = 1
  /\ Len(consensus_map) = 2
  /\ Len(feature_map) = 4

\* a is not behind b in the order by rt, then m/z
InOrder(a, b) ==
  \/ a.rt.n * b.rt.d < b.rt.n * a.rt.d
  \/ /\ a.rt.n * b.rt.d = b.rt.n * a.rt.d
     /\ a.mz.n * b.mz.d <= b.mz.n * a.mz.d

NonDecreasing(listing) ==
  \A i \in 1..Len(listing) : \A j \in 1..Len(listing) :
    i < j => InOrder(listing[i], listing[j])

\* C20: the consensus map and the feature map are sorted by position before
\* they are stored: in every stored listing the elements are in
\* non-decreasing (rt, m/z) order, whatever the order in which patterns and
\* clusters produced them.
C20_StoredListingsSorted ==
  /\ pc \in {"consensus_written", "written"} =>
       /\ NonDecreasing(stored_consensus)
       /\ Len(stored_consensus) = Len(ClusterList)
  /\ pc = "written" =>
       /\ NonDecreasing(stored_features)
       /\ Len(stored_features) = Len(FeatureList)

\* two clusters produced out of order, and two of equal rt ordered by m/z
C20_Witness ==
  /\ pc = "written"
  /\ Len(stored_consensus) >= 2
  /\ stored_consensus[1].rt = stored_consensus[2].rt
  /\ stored_consensus[1].mz # stored_consensus[2].mz
  /\ Len(ClusterList[1].points) = 1
  /\ Len(ClusterList[2].points) = 1
  /\ ClusterList[1].points[1] = 1
  /\ ClusterList[2].points[1] = 2
  /\ ~NonDecreasing(
        Concat([k \in 1..Len(patterns) |->
                  PatternFeatures(patterns[k], cluster_results[k],
                                  isotopes_per_peptide_max_)],
               Len(patterns)))


----------------------------------------------------------------------------
(* The unlabelled first sample and the arity of the enumerated patterns,   *)
(* lines 380-392, 421-478 and 503-506                                      *)

\* the description with the "[]" of the first sample written out
LeadingEmpty(lab) == <<"[", "]">> \o lab

\* C28: in SILAC mode, for a description of label names, the description with a leading empty sample is
\* SILAC too and yields the list of the description without it, and every
\* pattern of the list is the reference 0 followed by one shift for each
\* non-empty sample
C28_FirstSampleUnlabelled ==
  (pc = "generated" /\ labelling.SILAC /\ OnlyLabelNames(labels_)) =>
    /\ SILAC(LeadingEmpty(labels_))
    /\ SILACList(SplitSamples(LeadingEmpty(labels_)), missed_cleavages_, 0, 0)
         = list
    /\ \A i \in 1..Len(list) :
         /\ list[i][1] = 0
         /\ Len(list[i]) = 1 + Len(samples_labels)

\* C29: for a description of label names, the patterns enumerated before the knock-out expansion have the
\* length of the first one, and the expansion reads no entry past the end
\* of a pattern
C29_PatternsOfOneLength ==
  (Generated /\ OnlyLabelNames(labels_)) =>
    /\ SameArity
    /\ Len(enumerated) > 0 =>
         ~ReadsPastEnd(enumerated, Len(enumerated[1]), knock_out_)

\* C30: for a description of label names, whatever the masses of the
\* labels, the list of mass patterns is non-empty when its first element is
\* read at line 505, and the call returns at least one pattern
C30_ListNonEmptyWhenRead ==
  OnlyLabelNames(labels_) =>
    /\ pc = "generated" => Len(list) > 0
    /\ pc = "done" => Len(result) > 0


----------------------------------------------------------------------------
(* FeaFiModule (FeaFiModule.h): navigation of an index (scan, peak) in the *)
(* map, getNextMz, getPrevMz, getNextRt and getPrevRt.  A scan is the      *)
(* sequence of the m/z positions of its peaks, sorted as the spectra of    *)
(* the map are; both components of an index count from 0.                  *)

MaxScans == 2
MaxPeaks == 2
MzPositions == {100, 101, 102}

\* the scans of at most n peaks, sorted by m/z
SortedScans(n) ==
  {scan \in UNION {[1..k -> MzPositions] : k \in 0..n} :
     \A k \in 1..(Len(scan) - 1) : scan[k] <= scan[k + 1]}

FeaFiMaps == UNION {[1..n -> SortedScans(MaxPeaks)] : n \in 1..MaxScans}

\* (*map_)[index.first]
ScanOf(map, idx) == map[idx[1] + 1]

\* the two OPENMS_PRECONDITIONs of every navigation function
ValidIndex(map, idx) ==
  idx[1] < Len(map) /\ idx[2] < Len(ScanOf(map, idx))

ValidIndices(map) ==
  {idx \in (0..(Len(map) - 1)) \X (0..(MaxPeaks - 1)) : ValidIndex(map, idx)}

NoSuccessor(idx) == [index |-> idx, exception |-> "NoSuccessor"]
Moved(idx) == [index |-> idx, exception |-> "none"]

\* lines 212-219 without the test for the last peak
NextMz_Unchecked(map, idx) == Moved(<<idx[1], idx[2] + 1>>)

\* lines 212-219; index.second == size() - 1 in unsigned arithmetic is
\* index.second + 1 == size()
NextMz(map, idx) ==
  IF idx[2] + 1 = Len(ScanOf(map, idx)) THEN NoSuccessor(idx)
  ELSE Moved(<<idx[1], idx[2] + 1>>)

\* lines 228-235
PrevMz(map, idx) ==
  IF idx[2] = 0 THEN NoSuccessor(idx) ELSE Moved(<<idx[1], idx[2] - 1>>)

\* std::lower_bound with PositionLess on a sorted scan: the position of the
\* first peak whose m/z is not less than mz_pos, size() when there is none
lower_bound(scan, mz_pos) ==
  Cardinality({k \in 1..Len(scan) : scan[k] < mz_pos})

\* lines 256-282 and 319-345: the peak of the neighbouring scan
NearestPeak(scan, mz_pos) ==
  LET it == lower_bound(scan, mz_pos)
  IN IF it = Len(scan)
     THEN (IF Len(scan) > 0 THEN Len(scan) - 1 ELSE 0)
     ELSE IF it = 0 THEN 0
     ELSE IF At(scan, it) - mz_pos < mz_pos - At(scan, it - 1)
          THEN it
          ELSE it - 1

\* lines 244-282, mz_pos being the m/z read at line 251
NextRt(map, idx, mz_pos) ==
  IF idx[1] + 1 = Len(map) THEN NoSuccessor(idx)
  ELSE Moved(<<idx[1] + 1, NearestPeak(map[idx[1] + 2], mz_pos)>>)

\* lines 304-345, mz_pos being the m/z read at line 311
PrevRt(map, idx, mz_pos) ==
  IF idx[1] = 0 THEN NoSuccessor(idx)
  ELSE Moved(<<idx[1] - 1, NearestPeak(map[idx[1]], mz_pos)>>)

\* a call with a corrupt index in a build with the preconditions enabled
PreconditionFails(name) ==
  /\ ~ValidIndex(map_, index)
  /\ exception' = "Precondition"
  /\ last_call' = name
  /\ index_before' = index
  /\ UNCHANGED <<map_, index, pc>>

\* the outcome r of the call name
Returns(name, r) ==
  /\ index' = r.index
  /\ exception' = r.exception
  /\ last_call' = name
  /\ index_before' = index
  /\ UNCHANGED <<map_, pc>>

\* lines 206-220; with a corrupt index and the preconditions compiled out
\* the peak component keeps growing (bounded here by MaxPeaks)
getNextMz ==
  /\ pc = "feafi"
  /\ \/ PreconditionFails("getNextMz")
     \/ /\ index[2] < MaxPeaks
        /\ Returns("getNextMz", NextMz(map_, index))
  /\ UNCHANGED <<genVars, peakVars, intensityVars, mapVars, purityVars,
                 splineVars, runVars>>

\* lines 222-236
getPrevMz ==
  /\ pc = "feafi"
  /\ \/ PreconditionFails("getPrevMz")
     \/ Returns("getPrevMz", PrevMz(map_, index))
  /\ UNCHANGED <<genVars, peakVars, intensityVars, mapVars, purityVars,
                 splineVars, runVars>>

\* lines 238-283; with a corrupt index and the preconditions compiled out
\* line 251 reads behind the peaks of the scan: any m/z, or a crash
getNextRt ==
  /\ pc = "feafi"
  /\ \/ PreconditionFails("getNextRt")
     \/ /\ ValidIndex(map_, index)
        /\ Returns("getNextRt",
                   NextRt(map_, index, At(ScanOf(map_, index), index[2])))
     \/ /\ ~ValidIndex(map_, index)
        /\ \/ \E g \in MzPositions :
                Returns("getNextRt", NextRt(map_, index, g))
           \/ /\ index[1] + 1 # Len(map_)
              /\ pc' = "crashed"
              /\ last_call' = "getNextRt"
              /\ index_before' = index
              /\ UNCHANGED <<map_, index, exception>>
  /\ UNCHANGED <<genVars, peakVars, intensityVars, mapVars, purityVars,
                 splineVars, runVars>>

\* lines 285-346; lines 291-302 return on a corrupt index when the
\* preconditions are compiled out
getPrevRt ==
  /\ pc = "feafi"
  /\ \/ PreconditionFails("getPrevRt")
     \/ /\ ValidIndex(map_, index)
        /\ Returns("getPrevRt",
                   PrevRt(map_, index, At(ScanOf(map_, index), index[2])))
     \/ /\ ~ValidIndex(map_, index)
        /\ Returns("getPrevRt", Moved(index))
  /\ UNCHANGED <<genVars, peakVars, intensityVars, mapVars, purityVars,
                 splineVars, runVars>>

InitFeaFi ==
  /\ GenIdle
  /\ PeakIdle
  /\ IntensityIdle
  /\ MapIdle
  /\ PurityIdle
  /\ SplineIdle
  /\ RunIdle
  /\ pc = "feafi"
  /\ exception = "none"
  /\ map_ \in FeaFiMaps
  /\ index \in ValidIndices(map_)
  /\ index_before = index
  /\ last_call = "none"

NextFeaFi ==
  \/ getNextMz
  \/ getPrevMz
  \/ getNextRt
  \/ getPrevRt

SpecFeaFi == InitFeaFi /\ [][NextFeaFi]_vars

----------------------------------------------------------------------------
(* Claims about the navigation of FeaFiModule                              *)

\* the call started from an index that references a peak
FromValidIndex(names) ==
  pc = "feafi" /\ last_call \in names /\ ValidIndex(map_, index_before)

AtLastPeak == index_before[2] = Len(ScanOf(map_, index_before)) - 1
AtFirstPeak == index_before[2] = 0

\* C25: from a valid index getNextMz (getPrevMz) signals NoSuccessor exactly
\* at the last (first) peak of the scan and then leaves the index as it
\* was; otherwise it moves the peak component by +1 (-1) and keeps the scan
\* component; the index stays valid, and getPrevMz after a getNextMz that
\* moved gives the index back
C25_MzNavigation ==
  /\ FromValidIndex({"getNextMz"}) =>
       /\ exception = "NoSuccessor" <=> AtLastPeak
       /\ exception \in {"NoSuccessor", "none"}
       /\ AtLastPeak => index = index_before
       /\ ~AtLastPeak =>
            /\ index = <<index_before[1], index_before[2] + 1>>
            /\ PrevMz(map_, index) = Moved(index_before)
       /\ ValidIndex(map_, index)
  /\ FromValidIndex({"getPrevMz"}) =>
       /\ exception = "NoSuccessor" <=> AtFirstPeak
       /\ exception \in {"NoSuccessor", "none"}
       /\ AtFirstPeak => index = index_before
       /\ ~AtFirstPeak =>
            /\ index = <<index_before[1], index_before[2] - 1>>
            /\ NextMz(map_, index) = Moved(index_before)
       /\ ValidIndex(map_, index)

\* getNextMz moved to the last peak of a scan
C25_Witness ==
  /\ FromValidIndex({"getNextMz"})
  /\ exception = "none"
  /\ index # index_before
  /\ NextMz(map_, index) = NoSuccessor(index)

Distance(a, b) == IF a < b THEN b - a ELSE a - b

\* the peak idx[2] of its scan is nearest to mz_pos, the lower one on a tie
Nearest(map, idx, mz_pos) ==
  LET scan == ScanOf(map, idx)
  IN \A k \in 1..Len(scan) :
       \/ Distance(At(scan, idx[2]), mz_pos) < Distance(scan[k], mz_pos)
       \/ /\ Distance(At(scan, idx[2]), mz_pos) = Distance(scan[k], mz_pos)
          /\ At(scan, idx[2]) <= scan[k]

InLastScan == index_before[1] = Len(map_) - 1
InFirstScan == index_before[1] = 0

\* the index is in the scan first, at an existing peak nearest to the m/z
\* of the peak the call started from
AtNearestPeakOf(first) ==
  /\ index[1] = first
  /\ ValidIndex(map_, index)
  /\ Nearest(map_, index, At(ScanOf(map_, index_before), index_before[2]))

\* C26: from a valid index getNextRt (getPrevRt) signals NoSuccessor
\* exactly in the last (first) scan and then leaves the index as it was;
\* otherwise the index is in the next (previous) scan at an existing peak
\* whose m/z is nearest to the m/z of the starting peak, the lower one on a
\* tie
C26_RtNavigation ==
  /\ FromValidIndex({"getNextRt"}) =>
       /\ exception = "NoSuccessor" <=> InLastScan
       /\ InLastScan => index = index_before
       /\ ~InLastScan => AtNearestPeakOf(index_before[1] + 1)
  /\ FromValidIndex({"getPrevRt"}) =>
       /\ exception = "NoSuccessor" <=> InFirstScan
       /\ InFirstScan => index = index_before
       /\ ~InFirstScan => AtNearestPeakOf(index_before[1] - 1)


----------------------------------------------------------------------------
(* IsobaricChannelExtractor::PuritySate (IsobaricChannelExtractor.h): the  *)
(* follow-up MS1 scan of the purity computation.  An iterator of the       *)
(* experiment is a position counted from 0, end() is the position size().  *)

MaxSpectra == 3
MSLevels == {1, 2}

\* the experiments of n scans: scan k is recorded at retention time k
ExperimentsOf(n) ==
  {[k \in 1..n |-> [ms_level |-> levels[k], rt |-> k]] :
     levels \in [1..n -> MSLevels]}

PurityExperiments == UNION {ExperimentsOf(n) : n \in 0..MaxSpectra}

end(scans) == Len(scans)

\* lines 105-108: the loop of the constructor; followUpScan->getMSLevel()
\* is evaluated before followUpScan != end()
RECURSIVE FirstMS1(_, _)
FirstMS1(scans, it) ==
  IF it = end(scans) THEN it
  ELSE IF At(scans, it).ms_level # 1 THEN FirstMS1(scans, it + 1)
  ELSE it

\* lines 117-122: the loop of advanceFollowUp
RECURSIVE FollowUp(_, _, _)
FollowUp(scans, it, t) ==
  IF it = end(scans) THEN it
  ELSE IF At(scans, it).ms_level # 1 /\ At(scans, it).rt < t
       THEN FollowUp(scans, it + 1, t)
       ELSE it

\* lines 97-112; a loop that arrives at end() has called getMSLevel() on
\* end(): the read returns some level, after which followUpScan != end()
\* ends the loop, or the program crashes
PuritySate ==
  /\ pc = "purity_new"
  /\ LET it == FirstMS1(baseExperiment, 0)
     IN \/ /\ followUpScan' = it
           /\ hasFollowUpScan' = (it # end(baseExperiment))
           /\ pc' = "constructed"
        \/ /\ it = end(baseExperiment)
           /\ pc' = "crashed"
           /\ UNCHANGED <<followUpScan, hasFollowUpScan>>
  /\ UNCHANGED <<baseExperiment, followUp_before, rt, exception>>
  /\ UNCHANGED <<genVars, peakVars, intensityVars, mapVars, feafiVars,
                 splineVars, runVars>>

\* lines 114-126
advanceFollowUp ==
  /\ pc \in {"constructed", "advanced"}
  /\ \E t \in 0..(MaxSpectra + 1) :
       LET it == FollowUp(baseExperiment, followUpScan, t)
       IN /\ rt' = t
          /\ followUp_before' = followUpScan
          /\ \/ /\ followUpScan' = it
                /\ hasFollowUpScan' = (it # end(baseExperiment))
                /\ pc' = "advanced"
             \/ /\ it = end(baseExperiment)
                /\ pc' = "crashed"
                /\ UNCHANGED <<followUpScan, hasFollowUpScan>>
  /\ UNCHANGED <<baseExperiment, exception>>
  /\ UNCHANGED <<genVars, peakVars, intensityVars, mapVars, feafiVars,
                 splineVars, runVars>>

InitPurity ==
  /\ GenIdle
  /\ PeakIdle
  /\ IntensityIdle
  /\ MapIdle
  /\ FeaFiIdle
  /\ SplineIdle
  /\ RunIdle
  /\ pc = "purity_new"
  /\ exception = "none"
  /\ baseExperiment \in PurityExperiments
  /\ followUpScan = 0
  /\ hasFollowUpScan = FALSE
  /\ followUp_before = 0
  /\ rt = 0

NextPurity ==
  \/ PuritySate
  \/ advanceFollowUp

SpecPurity == InitPurity /\ [][NextPurity]_vars

----------------------------------------------------------------------------
(* Claims about PuritySate                                                 *)

\* the MS1 scans at or after the position it whose RT is not smaller than t
FollowUpCandidates(scans, it, t) ==
  {k \in it..(end(scans) - 1) : At(scans, k).ms_level = 1 /\ At(scans, k).rt >= t}

\* the loop of the call arrived at end() and so evaluated
\* followUpScan->getMSLevel() on it
EndDereferenced ==
  FollowUp(baseExperiment, followUp_before, rt) = end(baseExperiment)

\* C27: after advanceFollowUp(rt) followUpScan is the first MS1 scan at or
\* after its previous position whose RT is not smaller than rt, or end()
\* when there is none, hasFollowUpScan tells whether there is one, and
\* the call did not dereference end()
C27_FollowUpScanAdvanced ==
  pc = "advanced" =>
    LET found == FollowUpCandidates(baseExperiment, followUp_before, rt)
    IN /\ found # {} =>
            /\ followUpScan \in found
            /\ \A k \in found : followUpScan <= k
       /\ found = {} => followUpScan = end(baseExperiment)
       /\ hasFollowUpScan <=> found # {}
       /\ ~EndDereferenced


----------------------------------------------------------------------------
(* SplineSpectrum::Navigator (exercised by SplineSpectrum_test.cpp): the   *)
(* profile intensity sampler.  A spline package covers the m/z range       *)
(* [mz_min, mz_max] of a run of raw data points and is sampled in steps of *)
(* mz_step; packages are sorted by m/z and do not touch.  m/z values are   *)
(* integers (a fixed unit), package indices count from 0.                  *)

MaxMz == 7
MaxPackages == 2

SplinePackages ==
  {p \in [mz_min : 1..MaxMz, mz_max : 1..MaxMz, mz_step : 1..MaxMz] :
     p.mz_min + p.mz_step <= p.mz_max}

\* the spectra the navigator is built for: at least one package
\* (getNavigator throws InvalidSize otherwise), each behind the one before
SplineSpectra ==
  {ps \in UNION {[1..n -> SplinePackages] : n \in 1..MaxPackages} :
     \A i \in 1..(Len(ps) - 1) : ps[i].mz_max < ps[i + 1].mz_min}

getMzMin(ps) == ps[1].mz_min
getMzMax(ps) == ps[Len(ps)].mz_max

isInPackage(p, x) == x >= p.mz_min /\ x <= p.mz_max

\* SplinePackage::eval inside the package: the interpolated intensity, which
\* is the raw intensity 1 at both ends of the package here
PackageEval(p, x) == 1 + (x - p.mz_min) * (p.mz_max - x)

\* Navigator::eval, the search to the left of package i
RECURSIVE EvalLeft(_, _, _)
EvalLeft(ps, i, x) ==
  IF i < 0 THEN [value |-> 0, package |-> 0]
  ELSE IF x > At(ps, i).mz_max THEN [value |-> 0, package |-> i]
  ELSE IF x >= At(ps, i).mz_min
       THEN [value |-> PackageEval(At(ps, i), x), package |-> i]
       ELSE EvalLeft(ps, i - 1, x)

\* Navigator::eval, the search to the right of package i
RECURSIVE EvalRight(_, _, _)
EvalRight(ps, i, x) ==
  IF i >= Len(ps) THEN [value |-> 0, package |-> Len(ps) - 1]
  ELSE IF x < At(ps, i).mz_min THEN [value |-> 0, package |-> i]
  ELSE IF x <= At(ps, i).mz_max
       THEN [value |-> PackageEval(At(ps, i), x), package |-> i]
       ELSE EvalRight(ps, i + 1, x)

\* Navigator::eval that interpolates with the package found last
Eval_LastPackage(ps, last, x) ==
  [value |-> PackageEval(At(ps, last), x), package |-> last]

\* Navigator::eval
Eval(ps, last, x) ==
  IF x < At(ps, last).mz_min THEN EvalLeft(ps, last, x)
  ELSE EvalRight(ps, last, x)

\* Navigator::getNextMz, the search of the package of x starting at i: the
\* package that holds x, or the value returned when no package does
RECURSIVE FindPackage(_, _, _)
FindPackage(ps, i, x) ==
  IF isInPackage(At(ps, i), x) THEN [found |-> TRUE, package |-> i]
  ELSE IF x < At(ps, i).mz_min
       THEN IF i - 1 < 0
            THEN [found |-> FALSE, package |-> 0, value |-> ps[1].mz_min]
            ELSE IF x > At(ps, i - 1).mz_max
                 THEN [found |-> FALSE, package |-> i,
                       value |-> At(ps, i).mz_min]
                 ELSE FindPackage(ps, i - 1, x)
       ELSE IF i + 1 > Len(ps) - 1
            THEN [found |-> FALSE, package |-> Len(ps) - 1,
                  value |-> getMzMax(ps)]
            ELSE IF x < At(ps, i + 1).mz_min
                 THEN [found |-> FALSE, package |-> i + 1,
                       value |-> At(ps, i + 1).mz_min]
                 ELSE FindPackage(ps, i + 1, x)

\* Navigator::getNextMz with the step taken whether or not it leaves the
\* package
NextMzOf_AlwaysStep(ps, last, x) ==
  LET f == FindPackage(ps, last, x)
  IN IF ~f.found THEN [value |-> f.value, package |-> f.package]
     ELSE [value |-> x + At(ps, f.package).mz_step, package |-> f.package]

\* Navigator::getNextMz
NextMzOf(ps, last, x) ==
  LET f == FindPackage(ps, last, x)
  IN IF ~f.found THEN [value |-> f.value, package |-> f.package]
     ELSE IF x + At(ps, f.package).mz_step > At(ps, f.package).mz_max
          THEN IF f.package + 1 > Len(ps) - 1
               THEN [value |-> getMzMax(ps), package |-> Len(ps) - 1]
               ELSE [value |-> At(ps, f.package + 1).mz_min,
                     package |-> f.package + 1]
          ELSE [value |-> x + At(ps, f.package).mz_step,
                package |-> f.package]

\* the m/z values the navigator is asked for
Positions == 0..(MaxMz + 1)

\* navigator.eval(x)
NavigatorEval ==
  /\ pc \in {"navigator", "evaluated", "stepped"}
  /\ \E x \in Positions :
       LET r == Eval(packages_, last_package_, x)
       IN /\ mz' = x
          /\ returned' = r.value
          /\ last_package_' = r.package
  /\ pc' = "evaluated"
  /\ UNCHANGED <<packages_, exception>>
  /\ UNCHANGED <<genVars, peakVars, intensityVars, mapVars, feafiVars,
                 purityVars, runVars>>

\* navigator.getNextMz(x), for any x and for the value returned last
NavigatorGetNextMz ==
  /\ pc \in {"navigator", "evaluated", "stepped"}
  /\ \E x \in Positions :
       LET r == NextMzOf(packages_, last_package_, x)
       IN /\ mz' = x
          /\ returned' = r.value
          /\ last_package_' = r.package
  /\ pc' = "stepped"
  /\ UNCHANGED <<packages_, exception>>
  /\ UNCHANGED <<genVars, peakVars, intensityVars, mapVars, feafiVars,
                 purityVars, runVars>>

InitSpline ==
  /\ GenIdle
  /\ PeakIdle
  /\ IntensityIdle
  /\ MapIdle
  /\ FeaFiIdle
  /\ PurityIdle
  /\ RunIdle
  /\ pc = "navigator"
  /\ exception = "none"
  /\ packages_ \in SplineSpectra
  /\ last_package_ = 0
  /\ mz = 0
  /\ returned = 0

NextSpline ==
  \/ NavigatorEval
  \/ NavigatorGetNextMz

SpecSpline == InitSpline /\ [][NextSpline]_vars

----------------------------------------------------------------------------
(* Claims about the profile intensity sampler                              *)

InSomePackage(x) ==
  \E i \in 1..Len(packages_) : isInPackage(packages_[i], x)

\* C23: eval returns exactly 0 for an m/z outside all packages (below the
\* first, above the last, in a gap between two)
C23_ZeroOutsidePackages ==
  (pc = "evaluated" /\ ~InSomePackage(mz)) => returned = 0

\* eval was asked in a gap between two packages after it had found the
\* package on the right of the gap
C23_Witness ==
  /\ pc = "evaluated"
  /\ ~InSomePackage(mz)
  /\ mz > getMzMin(packages_)
  /\ mz < getMzMax(packages_)
  /\ returned = 0
  /\ last_package_ > 0

\* the package that holds x
PackageOf(x) ==
  CHOOSE i \in 1..Len(packages_) : isInPackage(packages_[i], x)

\* the first m/z of the first package that begins behind x
NextPackageMin(x) ==
  LET behind == {i \in 1..Len(packages_) : packages_[i].mz_min > x}
  IN packages_[CHOOSE i \in behind : \A j \in behind : i <= j].mz_min

\* C24: getNextMz(mz) returns mz + step inside a package, the first m/z of
\* the next package when the step would leave the package or mz is in
\* front of a package, and getMzMax() when there is no next package; it
\* is greater than mz while mz is below getMzMax() and never above
\* getMzMax()
C24_NextMzMovesForward ==
  pc = "stepped" =>
    /\ returned <= getMzMax(packages_)
    /\ mz < getMzMax(packages_) => returned > mz
    /\ mz >= getMzMax(packages_) => returned = getMzMax(packages_)
    /\ (InSomePackage(mz) /\ mz < getMzMax(packages_)) =>
         LET p == packages_[PackageOf(mz)]
         IN IF mz + p.mz_step <= p.mz_max
            THEN returned = mz + p.mz_step
            ELSE IF PackageOf(mz) < Len(packages_)
                 THEN returned = NextPackageMin(mz)
                 ELSE returned = getMzMax(packages_)
    /\ (~InSomePackage(mz) /\ mz < getMzMax(packages_)) =>
         returned = NextPackageMin(mz)

\* the step from inside the first package left it and led to the second
C24_Witness ==
  /\ pc = "stepped"
  /\ Len(packages_) = 2
  /\ isInPackage(packages_[1], mz)
  /\ mz > getMzMin(packages_)
  /\ returned = packages_[2].mz_min


----------------------------------------------------------------------------
(* main_, lines 935-1317: a run of the tool from the loaded experiment to  *)
(* the stored maps, and a second run on the same input and configuration.  *)
(* The parameters are read (lines 940-948); peak picking, filtering and    *)
(* clustering are done by PeakPickerHiRes, MultiplexFiltering and          *)
(* MultiplexClustering.                                                    *)

\* the labelling descriptions of the runs
MainDescriptions ==
  { << <<sLys8>> >>,
    << <<>>, <<sLys8>> >>,
    << <<sLys6>>, <<sLys8, sArg6>> >>,
    << <<sDimethyl0>>, <<sDimethyl4>> >>,
    << <<sLys8>>, <<sDimethyl4>> >> }

MainLabels == {Render(d, SquareStyle) : d \in MainDescriptions}

MainConfiguration == [charge_min |-> 2, charge_max |-> 2, isotopes |-> 1]

\* the files: the MS level of each of at most MaxSpectra spectra
LoadedExperiments == UNION {[1..n -> MSLevels] : n \in 0..MaxSpectra}

\* lines 965-966: erase the spectra that are not of MS level 1
ExtractMS1 ==
  /\ pc = "loaded"
  /\ exp' = SelectSeq(exp, LAMBDA level : level = 1)
  /\ pc' = "start"
  /\ UNCHANGED <<exit_code, unique_ids, previous, exception>>
  /\ UNCHANGED <<genVars, peakVars, intensityVars, mapVars, navVars>>

\* lines 990-991
GeneratePatterns ==
  /\ pc = "done"
  /\ masses' = result
  /\ patterns' = generatePeakPatterns_(charge_min_, charge_max_,
                                       isotopes_per_peptide_max_, result)
  /\ pc' = "patterns"
  /\ UNCHANGED <<charge_temp, isotopes_per_peptide_temp, charge_min_,
                 charge_max_, isotopes_per_peptide_min_,
                 isotopes_per_peptide_max_, exception>>
  /\ UNCHANGED <<genVars, intensityVars, mapVars, otherVars>>

\* MultiplexFiltering::filter and MultiplexClustering::cluster: no cluster
\* in an experiment without spectra; else one cluster for every pattern,
\* of as many result peaks as there are spectra (at most MaxPoints)
Clustered(spectra, pats) ==
  [k \in 1..Len(pats) |->
     IF Len(spectra) = 0 THEN <<>>
     ELSE << [i \in 1..(IF Len(spectra) < MaxPoints THEN Len(spectra)
                        ELSE MaxPoints) |-> i - 1] >>]

\* lines 992-999
FilterAndCluster ==
  /\ pc = "patterns"
  /\ cluster_results' = Clustered(exp, patterns)
  /\ pc' = "clustered"
  /\ UNCHANGED <<consensus_map, feature_map, file_descriptions,
                 stored_consensus, stored_features, exception>>
  /\ UNCHANGED <<genVars, peakVars, intensityVars, otherVars>>

\* line 1317
ReturnExecutionOk ==
  /\ pc = "written"
  /\ exit_code' = "EXECUTION_OK"
  /\ pc' = "exited"
  /\ UNCHANGED <<exp, unique_ids, previous, exception>>
  /\ UNCHANGED <<genVars, peakVars, intensityVars, mapVars, navVars>>

\* an exception that leaves main_ ends the run with an error
Propagate ==
  /\ pc = "thrown"
  /\ exit_code' = exception
  /\ pc' = "exited"
  /\ UNCHANGED <<exp, unique_ids, previous, exception>>
  /\ UNCHANGED <<genVars, peakVars, intensityVars, mapVars, navVars>>

\* what a run leaves: the two stored listings and the ids of their elements
Listings ==
  [consensus |-> stored_consensus,
   features |-> stored_features,
   unique_ids |-> unique_ids]

\* the tool is started again on the same file with the same parameters
\* (erasing the spectra that are not MS1 a second time changes nothing)
RunAgain ==
  /\ pc \in {"exited", "crashed"}
  /\ previous = <<>>
  /\ previous' = <<Listings>>
  /\ pc' = "loaded"
  /\ exception' = "none"
  /\ exit_code' = "none"
  /\ unique_ids' = NoUniqueIds
  /\ labelling' = NoLabelling
  /\ samples_labels' = <<>>
  /\ list' = <<>>
  /\ enumerated' = <<>>
  /\ n_read' = 0
  /\ result' = <<>>
  /\ masses' = <<>>
  /\ patterns' = <<>>
  /\ cluster_results' = <<>>
  /\ consensus_map' = <<>>
  /\ feature_map' = <<>>
  /\ file_descriptions' = <<>>
  /\ stored_consensus' = <<>>
  /\ stored_features' = <<>>
  /\ UNCHANGED <<labels_, missed_cleavages_, knock_out_, label_massshift,
                 charge_temp, isotopes_per_peptide_temp, charge_min_,
                 charge_max_, isotopes_per_peptide_min_,
                 isotopes_per_peptide_max_, exp>>
  /\ UNCHANGED <<intensityVars, navVars>>

InitMain ==
  /\ labels_ \in MainLabels
  /\ missed_cleavages_ = 0
  /\ knock_out_ \in BOOLEAN
  /\ label_massshift \in LabelMassShifts(labels_)
  /\ pc = "loaded"
  /\ labelling = NoLabelling
  /\ samples_labels = <<>>
  /\ list = <<>>
  /\ enumerated = <<>>
  /\ n_read = 0
  /\ exception = "none"
  /\ result = <<>>
  /\ charge_temp = <<MainConfiguration.charge_min, MainConfiguration.charge_max>>
  /\ isotopes_per_peptide_temp =
       <<MainConfiguration.isotopes, MainConfiguration.isotopes>>
  /\ charge_min_ = MainConfiguration.charge_min
  /\ charge_max_ = MainConfiguration.charge_max
  /\ isotopes_per_peptide_min_ = MainConfiguration.isotopes
  /\ isotopes_per_peptide_max_ = MainConfiguration.isotopes
  /\ masses = <<>>
  /\ patterns = <<>>
  /\ IntensityIdle
  /\ MapIdle
  /\ NavIdle
  /\ exp \in LoadedExperiments
  /\ exit_code = "none"
  /\ unique_ids = NoUniqueIds
  /\ previous = <<>>

NextMain ==
  \/ ExtractMS1
  \/ ClassifyLabelling
  \/ SplitLabels
  \/ CheckLabels
  \/ GenerateMassShiftList
  \/ KnockOut
  \/ KnockOutEmptyList
  \/ KnockOutPastEnd
  \/ Return
  \/ GeneratePatterns
  \/ FilterAndCluster
  \/ generateMaps_
  \/ writeConsensusMap_
  \/ writeFeatureMap_
  \/ ReturnExecutionOk
  \/ Propagate
  \/ RunAgain

SpecMain == InitMain /\ [][NextMain]_vars

----------------------------------------------------------------------------
(* Claims about the run                                                    *)

\* no MS1 spectrum is left after line 966
EmptySpectrumGrid == pc # "loaded" /\ Len(exp) = 0

\* C21: when no MS1 spectrum is left after the MS-level filter, neither the
\* consensus map nor the feature map is written and the run does not end
\* with the exit code of a successful run
C21_EmptyInputRejected ==
  EmptySpectrumGrid =>
    /\ pc \notin {"consensus_written", "written"}
    /\ pc = "exited" => exit_code # "EXECUTION_OK"

\* C22: a second run on the same input and configuration that has ended
\* left the listings of the first run, unique ids included
C22_SecondRunSameListings ==
  (pc \in {"exited", "crashed"} /\ previous # <<>>) => previous[1] = Listings

====
